---------------------------- MODULE Spec2Model ----------------------------
(* Rules engine of the property-trading board game: GamePage (turn engine,   *)
(* landing resolution, trades, chance cards, automated turns) over the state *)
(* held by GameContext (players, ownership, mortgages, houses, bankrupts).   *)
(*                                                                           *)
(* React semantics kept by the model: a handler reads the values of the      *)
(* render that created it (its closure) and queues updates; an updater       *)
(* given as a function (prev => ...) is applied to the latest value, an      *)
(* update given as a value replaces it.  Click handlers belong to the latest *)
(* render, so their closure is the current state; the interval callback of   *)
(* a roll and the whole of runAITurn keep the closure of the render that     *)
(* started them, which is recorded in rollCtx / aiCtx.                        *)
EXTENDS Integers, Sequences, FiniteSets, TLC

(***************************************************************************)
(* Bounds of the model                                                     *)
(***************************************************************************)
MaxSteps == 2          \* commands in one behaviour
MaxDepth == 3          \* nested landings inside one chance resolution

(***************************************************************************)
(* Program constants                                                       *)
(***************************************************************************)
NumPlayers == 3
BoardSize == 40
StartBonus == 200
JailPosition == 10
JailTurns == 3
Bail == 100
DieFaces == 6
MaxHouses == 5
AIReserve == 200

Players == 0 .. (NumPlayers - 1)
None == -1

(***************************************************************************)
(* BoardModel (data/boardData.js)                                          *)
(***************************************************************************)
Cells == 0 .. (BoardSize - 1)
Railroads == {5, 15, 25, 35}
Utilities == {12, 28}
TaxCells == {4, 38}
ChanceCells == {2, 7, 17, 22, 33, 36}
GoToJailCell == 30
Streets == {1, 3, 6, 8, 9, 11, 13, 14, 16, 18, 19, 21, 23, 24, 26, 27, 29,
            31, 32, 34, 37, 39}
Ownable == Streets \cup Railroads \cup Utilities

CellType(c) ==
    IF c \in Streets THEN "property"
    ELSE IF c \in Railroads THEN "railroad"
    ELSE IF c \in Utilities THEN "utility"
    ELSE IF c \in TaxCells THEN "tax"
    ELSE IF c \in ChanceCells THEN "chance"
    ELSE IF c = GoToJailCell THEN "goto_jail"
    ELSE "special"

ColorGroups == << {1, 3}, {6, 8, 9}, {11, 13, 14}, {16, 18, 19},
                  {21, 23, 24}, {26, 27, 29}, {31, 32, 34}, {37, 39} >>

ColorOf(c) == CHOOSE g \in 1 .. Len(ColorGroups) : c \in ColorGroups[g]

SameColorCells(c) == ColorGroups[ColorOf(c)]

Price(c) ==
    IF c \in Railroads THEN 200
    ELSE IF c \in Utilities THEN 150
    ELSE CASE c \in {1, 3} -> 60
           [] c \in {6, 8} -> 100
           [] c = 9 -> 120
           [] c \in {11, 13} -> 140
           [] c = 14 -> 160
           [] c \in {16, 18} -> 180
           [] c = 19 -> 200
           [] c \in {21, 23} -> 220
           [] c = 24 -> 240
           [] c \in {26, 27} -> 260
           [] c = 29 -> 280
           [] c \in {31, 32} -> 300
           [] c = 34 -> 320
           [] c = 37 -> 350
           [] c = 39 -> 400

StreetRent(c) ==
    CASE c = 1 -> <<2, 10, 30, 90, 160, 250>>
      [] c = 3 -> <<4, 20, 60, 180, 320, 450>>
      [] c \in {6, 8} -> <<6, 30, 90, 270, 400, 550>>
      [] c = 9 -> <<8, 40, 100, 300, 450, 600>>
      [] c \in {11, 13} -> <<10, 50, 150, 450, 625, 750>>
      [] c = 14 -> <<12, 60, 180, 500, 700, 900>>
      [] c \in {16, 18} -> <<14, 70, 200, 550, 750, 950>>
      [] c = 19 -> <<16, 80, 220, 600, 800, 1000>>
      [] c \in {21, 23} -> <<18, 90, 250, 700, 875, 1050>>
      [] c = 24 -> <<20, 100, 300, 750, 925, 1100>>
      [] c \in {26, 27} -> <<22, 110, 330, 800, 975, 1150>>
      [] c = 29 -> <<24, 120, 360, 850, 1025, 1200>>
      [] c \in {31, 32} -> <<26, 130, 390, 900, 1100, 1275>>
      [] c = 34 -> <<28, 150, 450, 1000, 1200, 1400>>
      [] c = 37 -> <<35, 175, 500, 1100, 1300, 1500>>
      [] c = 39 -> <<50, 200, 600, 1400, 1700, 2000>>

RailroadRent == <<25, 50, 100, 200>>

RentMultiplier == [one |-> 4, two |-> 10]

HouseCost(c) ==
    CASE ColorOf(c) \in {1, 2} -> 50
      [] ColorOf(c) \in {3, 4} -> 100
      [] ColorOf(c) \in {5, 6} -> 150
      [] ColorOf(c) \in {7, 8} -> 200

MortgageValue(c) == Price(c) \div 2

TaxAmount(c) == IF c = 4 THEN 200 ELSE 100

(***************************************************************************)
(* ChanceDeck (data/chanceCards.js): the fixed-order list, 1-based here,   *)
(* chanceIndex is the 0-based cursor of the source.                        *)
(***************************************************************************)
Card(t, n) == [type |-> t, n |-> n]

chanceCards ==
    << Card("move", 3), Card("money", 200), Card("collectFromAll", 20),
       Card("jail", 0), Card("money", 100), Card("move", -2),
       Card("payAll", 10), Card("payPerHouse", 25), Card("money", 150),
       Card("jailFree", 0), Card("goto", 0), Card("money", -150),
       Card("payPerHouse", 25), Card("money", -50), Card("money", -100) >>

Min(a, b) == IF a < b THEN a ELSE b


(***************************************************************************)
(* GameState                                                               *)
(***************************************************************************)
VARIABLES
    players,          \* GameContext: roster, one record per player
    currentPlayer,    \* GameContext: active-player index
    ownership,        \* GameContext: cell -> owner, None = bank
    mortgaged,        \* GameContext: cell -> BOOLEAN
    houses,           \* GameContext: cell -> house count
    bankruptPlayers,  \* GameContext: list of player indexes
    dice,             \* GamePage: the pair shown on the dice
    rolling,          \* GamePage: a roll's movement is in progress
    hasRolled,        \* GamePage: rolled-this-turn flag
    activeCell,       \* GamePage: cell of the open buy/skip decision
    chanceIndex,      \* GamePage: chance-deck cursor
    chanceCard,       \* GamePage: card waiting to be acknowledged
    pendingTrade,     \* GamePage: the offer under review
    showTrade,        \* GamePage: trade builder is open
    tradeWith,        \* GamePage: recipient selected in the builder
    tradeOffer,       \* GamePage: offer being built
    isAITurn,         \* GamePage: runAITurn is in progress
    turnEffect,       \* the [currentPlayer] effect has still to run
    rollCtx,          \* closure of the human roll in progress
    aiCtx,            \* closure and position of the runAITurn in progress
    gameLog,          \* addLog calls of the latest command
    moneyEffect,      \* setMoneyEffect calls of the latest command
    steps             \* commands executed so far

vars == << players, currentPlayer, ownership, mortgaged, houses,
           bankruptPlayers, dice, rolling, hasRolled, activeCell,
           chanceIndex, chanceCard, pendingTrade, showTrade, tradeWith,
           tradeOffer, isAITurn, turnEffect, rollCtx, aiCtx, gameLog,
           moneyEffect, steps >>

NoCard == Card("none", 0)
NoTrade == [from |-> None, to |-> None, giveProperties |-> {},
            takeProperties |-> {}, giveMoney |-> 0, takeMoney |-> 0]
EmptyOffer == [giveProperties |-> {}, takeProperties |-> {},
               giveMoney |-> 0, takeMoney |-> 0]
NoCtx == [active |-> FALSE]

Log(kind, player, a, b) == [kind |-> kind, player |-> player, a |-> a, b |-> b]
Effect(player, amount) == [player |-> player, amount |-> amount]

Includes(list, x) == \E i \in 1 .. Len(list) : list[i] = x

(* The values a handler sees: those of the render that created it. *)
Closure ==
    [active |-> TRUE, players |-> players, currentPlayer |-> currentPlayer,
     ownership |-> ownership, mortgaged |-> mortgaged, houses |-> houses,
     dice |-> dice, chanceIndex |-> chanceIndex,
     bankruptPlayers |-> bankruptPlayers, hasRolled |-> hasRolled,
     isAITurn |-> isAITurn]

(* The state the landing handlers update. *)
Landing ==
    [players |-> players, activeCell |-> activeCell, chanceCard |-> chanceCard,
     chanceIndex |-> chanceIndex, hasRolled |-> hasRolled,
     gameLog |-> <<>>, moneyEffect |-> <<>>]

(***************************************************************************)
(* GameContext updaters, as functions of the previous roster               *)
(***************************************************************************)
updateMoney(ps, playerId, amount) ==
    [ps EXCEPT ![playerId].money = @ + amount]

(* Faulty variant of sendToJail: the player is marked jailed where it      *)
(* stands, on the cell that sent it.                                       *)
sendToJailInPlace(ps, playerId) ==
    [ps EXCEPT ![playerId].inJail = TRUE,
               ![playerId].jailTurnsLeft = JailTurns]

sendToJail(ps, playerId) ==
    [ps EXCEPT ![playerId].position = JailPosition,
               ![playerId].inJail = TRUE,
               ![playerId].jailTurnsLeft = JailTurns]

releaseFromJail(ps, playerId) ==
    [ps EXCEPT ![playerId].inJail = FALSE, ![playerId].jailTurnsLeft = 0]

decrementJailTurn(ps, playerId) ==
    [ps EXCEPT ![playerId].jailTurnsLeft = @ - 1]

activePlayerIndexes == { i \in Players : ~Includes(bankruptPlayers, i) }

(* Faulty variant of winner: any survivor wins while others still play. *)
winnerWhileOthersPlay ==
    IF activePlayerIndexes # {}
    THEN CHOOSE i \in activePlayerIndexes : \A j \in activePlayerIndexes : i <= j
    ELSE None

winner ==
    IF Cardinality(activePlayerIndexes) = 1
    THEN CHOOSE i \in activePlayerIndexes : TRUE
    ELSE None

(***************************************************************************)
(* RentCalculator: the rent branch of handleCellAction                     *)
(***************************************************************************)
OwnedOfKind(clo, owner, kind) ==
    Cardinality({ c \in kind : clo.ownership[c] = owner /\ ~clo.mortgaged[c] })

StreetRentOf(clo, cell) ==
    LET houseCount == clo.houses[cell]
        rentIndex == Min(houseCount, Len(StreetRent(cell)) - 1)
    IN  StreetRent(cell)[rentIndex + 1]

RailroadRentOf(clo, cell, owner) ==
    LET ownedRails == OwnedOfKind(clo, owner, Railroads)
    IN  IF ownedRails > 0 THEN RailroadRent[ownedRails] ELSE 0

UtilityRentOf(clo, cell, owner) ==
    LET ownedUtilities == OwnedOfKind(clo, owner, Utilities)
        diceTotal == clo.dice[1] + clo.dice[2]
        multiplier == IF ownedUtilities = 2 THEN RentMultiplier.two
                      ELSE RentMultiplier.one
    IN  diceTotal * multiplier

RentOf(clo, cell, owner) ==
    CASE CellType(cell) = "property" -> StreetRentOf(clo, cell)
      [] CellType(cell) = "railroad" -> RailroadRentOf(clo, cell, owner)
      [] CellType(cell) = "utility" -> UtilityRentOf(clo, cell, owner)


(***************************************************************************)
(* Landing resolution.  st is the state being updated (Landing), clo the   *)
(* closure of the handler.  handleCellAction, applyChance and movePlayerTo *)
(* call one another; depth counts the nested landings.                     *)
(***************************************************************************)
RECURSIVE handleCellAction(_, _, _, _, _, _)
RECURSIVE applyChance(_, _, _, _, _)
RECURSIVE movePlayerTo(_, _, _, _, _)

PayRent(st, clo, cell, owner) ==
    LET cp == clo.currentPlayer
        rent == RentOf(clo, cell, owner)
    IN  IF rent > 0
        THEN [st EXCEPT
                !.players = updateMoney(updateMoney(@, cp, -rent), owner, rent),
                !.gameLog = Append(@, Log("rent", cp, owner, rent)),
                !.moneyEffect = Append(@, Effect(cp, -rent))]
        ELSE st

handleCellAction(st, clo, cell, silent, position, depth) ==
    LET cp == clo.currentPlayer
    IN  CASE CellType(cell) = "goto_jail" ->
                [st EXCEPT !.players = sendToJail(@, cp),
                           !.gameLog = Append(@, Log("jail", cp, cell, 0))]
          [] cell \in Ownable ->
                LET owner == clo.ownership[cell]
                IN  IF owner = None
                    THEN IF ~silent THEN [st EXCEPT !.activeCell = cell] ELSE st
                    ELSE IF clo.mortgaged[cell] THEN st
                    ELSE IF owner # cp THEN PayRent(st, clo, cell, owner)
                    ELSE st
          [] CellType(cell) = "chance" ->
                LET card == chanceCards[clo.chanceIndex + 1]
                    drawn == [st EXCEPT
                                !.chanceIndex = (@ + 1) % Len(chanceCards)]
                IN  IF silent
                    THEN applyChance(drawn, clo, card, position, depth)
                    ELSE [drawn EXCEPT !.chanceCard = card]
          [] CellType(cell) = "tax" ->
                [st EXCEPT
                    !.players = updateMoney(@, cp, -TaxAmount(cell)),
                    !.moneyEffect = Append(@, Effect(cp, -TaxAmount(cell))),
                    !.gameLog = Append(@, Log("tax", cp, cell, TaxAmount(cell)))]
          [] OTHER -> st

(* Faulty variant of TransferAll: bankrupt players pay and are paid too. *)
RECURSIVE TransferAllBankruptToo(_, _, _, _, _)
TransferAllBankruptToo(st, clo, idx, amount, total) ==
    LET cp == clo.currentPlayer
    IN  IF idx >= NumPlayers
        THEN IF total > 0
             THEN [st EXCEPT !.moneyEffect =
                        Append(@, Effect(cp, IF amount > 0 THEN total ELSE -total))]
             ELSE st
        ELSE IF idx # cp
        THEN TransferAllBankruptToo(
                [st EXCEPT
                    !.players = updateMoney(updateMoney(@, idx, -amount), cp, amount),
                    !.moneyEffect = Append(@, Effect(idx, -amount))],
                clo, idx + 1, amount,
                total + (IF amount > 0 THEN amount ELSE -amount))
        ELSE TransferAllBankruptToo(st, clo, idx + 1, amount, total)

RECURSIVE TransferAll(_, _, _, _, _)
(* players.forEach of collectFromAll (amount > 0) and payAll (amount < 0):  *)
(* idx runs over the roster of the closure.                                 *)
TransferAll(st, clo, idx, amount, total) ==
    LET cp == clo.currentPlayer
    IN  IF idx >= NumPlayers
        THEN IF total > 0
             THEN [st EXCEPT !.moneyEffect =
                        Append(@, Effect(cp, IF amount > 0 THEN total ELSE -total))]
             ELSE st
        ELSE IF idx # cp /\ ~Includes(clo.bankruptPlayers, idx)
        THEN TransferAll(
                [st EXCEPT
                    !.players = updateMoney(updateMoney(@, idx, -amount), cp, amount),
                    !.moneyEffect = Append(@, Effect(idx, -amount))],
                clo, idx + 1, amount,
                total + (IF amount > 0 THEN amount ELSE -amount))
        ELSE TransferAll(st, clo, idx + 1, amount, total)

RECURSIVE SumHouses(_, _, _)
SumHouses(clo, cells, acc) ==
    IF cells = {} THEN acc
    ELSE LET c == CHOOSE x \in cells : TRUE
         IN  SumHouses(clo, cells \ {c},
                       IF clo.ownership[c] = clo.currentPlayer
                       THEN acc + clo.houses[c] ELSE acc)

applyChance(st, clo, card, basePosition, depth) ==
    LET cp == clo.currentPlayer
        s0 == [st EXCEPT !.gameLog = Append(@, Log("drew", cp, card.type, card.n))]
    IN  CASE card.type = "money" ->
                [s0 EXCEPT !.players = updateMoney(@, cp, card.n),
                           !.moneyEffect = Append(@, Effect(cp, card.n)),
                           !.chanceCard = NoCard]
          [] card.type = "move" ->
                LET currentPos == IF basePosition # None THEN basePosition
                                  ELSE clo.players[cp].position
                    newPos == (currentPos + card.n + BoardSize) % BoardSize
                IN  [movePlayerTo(s0, clo, newPos, TRUE, depth)
                        EXCEPT !.chanceCard = NoCard]
          [] card.type = "goto" ->
                [movePlayerTo(s0, clo, card.n, FALSE, depth)
                    EXCEPT !.chanceCard = NoCard]
          [] card.type = "jail" ->
                [s0 EXCEPT !.players = sendToJail(@, cp),
                           !.chanceCard = NoCard,
                           !.hasRolled = TRUE]
          [] card.type = "jailFree" ->
                [s0 EXCEPT !.players[cp].jailFreeCard = TRUE,
                           !.chanceCard = NoCard]
          [] card.type = "collectFromAll" ->
                [TransferAll(s0, clo, 0, card.n, 0) EXCEPT !.chanceCard = NoCard]
          [] card.type = "payAll" ->
                [TransferAll(s0, clo, 0, -card.n, 0) EXCEPT !.chanceCard = NoCard]
          [] card.type = "payPerHouse" ->
                LET total == SumHouses(clo, Ownable, 0) * card.n
                IN  IF total > 0
                    THEN [s0 EXCEPT !.players = updateMoney(@, cp, -total),
                                    !.moneyEffect = Append(@, Effect(cp, -total)),
                                    !.chanceCard = NoCard]
                    ELSE [s0 EXCEPT !.chanceCard = NoCard]
          [] OTHER -> s0

movePlayerTo(st, clo, targetPosition, awardStart, depth) ==
    LET cp == clo.currentPlayer
        currentPos == clo.players[cp].position
        passedStart == awardStart /\ targetPosition < currentPos
        moved == [st EXCEPT
                    !.players[cp].position = targetPosition,
                    !.players[cp].money = @ + (IF passedStart THEN StartBonus ELSE 0),
                    !.moneyEffect = IF passedStart
                                    THEN Append(@, Effect(cp, StartBonus)) ELSE @]
    IN  IF depth >= MaxDepth THEN moved
        ELSE handleCellAction(moved, clo, targetPosition,
                              clo.players[cp].type = "ai", None, depth + 1)


(***************************************************************************)
(* Movement of a roll: the interval callback advances one cell per tick    *)
(* and notes a pass over cell 0.                                           *)
(***************************************************************************)
(* Faulty variant of Walk: the pass over cell 0 is noted when a tick     *)
(* leaves cell 0, so a roll that ends on cell 0 earns nothing.            *)
RECURSIVE WalkNotingStartOnLeave(_, _, _)
WalkNotingStartOnLeave(currentPos, passedStart, stepsLeft) ==
    IF stepsLeft = 0
    THEN [pos |-> currentPos, passedStart |-> passedStart]
    ELSE LET nextPos == (currentPos + 1) % BoardSize
         IN  WalkNotingStartOnLeave(nextPos, passedStart \/ currentPos = 0,
                                    stepsLeft - 1)

RECURSIVE Walk(_, _, _)
Walk(currentPos, passedStart, stepsLeft) ==
    IF stepsLeft = 0
    THEN [pos |-> currentPos, passedStart |-> passedStart]
    ELSE LET nextPos == (currentPos + 1) % BoardSize
         IN  Walk(nextPos, passedStart \/ nextPos = 0, stepsLeft - 1)

(* The dice pairs enumerated: one or two pairs for every total 2 .. 12.   *)
DicePairs == { <<a, b>> \in (1 .. DieFaces) \X (1 .. DieFaces) : b \in {a, a + 1} }

Commit(st) ==
    /\ players' = st.players
    /\ activeCell' = st.activeCell
    /\ chanceCard' = st.chanceCard
    /\ chanceIndex' = st.chanceIndex
    /\ gameLog' = st.gameLog
    /\ moneyEffect' = st.moneyEffect

Tick == steps < MaxSteps /\ ~turnEffect /\ steps' = steps + 1

IsBankrupt(p) == Includes(bankruptPlayers, p)

(* Faulty variant of NextPlayer: the next seat, bankrupt or not. *)
NextPlayerInSeatOrder(list, from, fuel) == (from + 1) % NumPlayers

(* do { next = (next + 1) % players.length } while (bankruptPlayers.includes(next)) *)
RECURSIVE NextPlayer(_, _, _)
NextPlayer(list, from, fuel) ==
    LET next == (from + 1) % NumPlayers
    IN  IF ~Includes(list, next) \/ fuel = 0 THEN next
        ELSE NextPlayer(list, next, fuel - 1)

(***************************************************************************)
(* Human roll: rollDice starts the interval, RollLand is its last tick.    *)
(***************************************************************************)
rollDice ==
    /\ Tick
    /\ winner = None
    /\ ~isAITurn
    /\ players[currentPlayer].type # "ai"
    /\ ~players[currentPlayer].inJail
    /\ ~rolling /\ ~hasRolled
    /\ \E d \in DicePairs :
        /\ dice' = d
        /\ rollCtx' = [clo |-> Closure, active |-> TRUE, steps |-> d[1] + d[2],
                       startPos |-> players[currentPlayer].position]
        /\ gameLog' = << Log("rolled", currentPlayer, d[1], d[2]) >>
    /\ rolling' = TRUE
    /\ moneyEffect' = <<>>
    /\ UNCHANGED << players, currentPlayer, ownership, mortgaged, houses,
                    bankruptPlayers, hasRolled, activeCell, chanceIndex,
                    chanceCard, pendingTrade, showTrade, tradeWith, tradeOffer,
                    isAITurn, turnEffect, aiCtx >>

RollLand ==
    /\ rollCtx.active
    /\ ~turnEffect
    /\ LET clo == rollCtx.clo
           cp == clo.currentPlayer
           w == Walk(rollCtx.startPos, FALSE, rollCtx.steps)
           bonus == IF w.passedStart THEN StartBonus ELSE 0
           updatedPlayers == [clo.players EXCEPT ![cp].position = w.pos,
                                                 ![cp].money = @ + bonus]
           st0 == [Landing EXCEPT
                     !.players = updatedPlayers,
                     !.moneyEffect = IF w.passedStart
                                     THEN << Effect(cp, StartBonus) >> ELSE <<>>,
                     !.gameLog = << Log("landed", cp, w.pos, bonus) >>]
           st1 == handleCellAction(st0, clo, w.pos, FALSE, None, 0)
       IN  Commit(st1)
    /\ rolling' = FALSE
    /\ hasRolled' = TRUE
    /\ rollCtx' = NoCtx
    /\ UNCHANGED << currentPlayer, ownership, mortgaged, houses,
                    bankruptPlayers, dice, pendingTrade, showTrade, tradeWith,
                    tradeOffer, isAITurn, turnEffect, aiCtx, steps >>

(***************************************************************************)
(* Buy / skip the cell of the open decision (PropertyModal)                *)
(***************************************************************************)
PropertyModalShown ==
    /\ activeCell # None
    /\ activeCell \in Ownable
    /\ ownership[activeCell] = None

buyProperty ==
    /\ Tick
    /\ PropertyModalShown
    /\ ownership' = [ownership EXCEPT ![activeCell] = currentPlayer]
    /\ players' = updateMoney(players, currentPlayer, -Price(activeCell))
    /\ gameLog' = << Log("bought", currentPlayer, activeCell, Price(activeCell)) >>
    /\ moneyEffect' = << Effect(currentPlayer, -Price(activeCell)) >>
    /\ activeCell' = None
    /\ UNCHANGED << currentPlayer, mortgaged, houses, bankruptPlayers, dice,
                    rolling, hasRolled, chanceIndex, chanceCard, pendingTrade,
                    showTrade, tradeWith, tradeOffer, isAITurn, turnEffect,
                    rollCtx, aiCtx >>

(* Faulty variant of skipProperty: skipping also marks the turn as rolled. *)
skipPropertyMarkingRolled ==
    /\ Tick
    /\ activeCell' = None
    /\ hasRolled' = TRUE
    /\ gameLog' = <<>> /\ moneyEffect' = <<>>
    /\ UNCHANGED << players, currentPlayer, ownership, mortgaged, houses,
                    bankruptPlayers, dice, rolling, chanceIndex,
                    chanceCard, pendingTrade, showTrade, tradeWith, tradeOffer,
                    isAITurn, turnEffect, rollCtx, aiCtx >>

(* The command itself has no guard: it only closes the decision. *)
skipProperty ==
    /\ Tick
    /\ activeCell' = None
    /\ gameLog' = <<>> /\ moneyEffect' = <<>>
    /\ UNCHANGED << players, currentPlayer, ownership, mortgaged, houses,
                    bankruptPlayers, dice, rolling, hasRolled, chanceIndex,
                    chanceCard, pendingTrade, showTrade, tradeWith, tradeOffer,
                    isAITurn, turnEffect, rollCtx, aiCtx >>

(* Skip button of the PropertyModal, rendered while the decision is open *)
onSkip == PropertyModalShown /\ skipProperty

(***************************************************************************)
(* endTurn, as a function of the closure it runs in                        *)
(***************************************************************************)
EndTurnFrom(clo) ==
    (* with every player in the list the do-while never returns *)
    /\ clo.hasRolled => \E p \in Players : ~Includes(clo.bankruptPlayers, p)
    /\ IF ~clo.hasRolled
       THEN /\ UNCHANGED << hasRolled, currentPlayer, turnEffect >>
            /\ gameLog' = <<>>
       ELSE LET next == NextPlayer(clo.bankruptPlayers, clo.currentPlayer, NumPlayers)
            IN  /\ hasRolled' = FALSE
                /\ currentPlayer' = next
                /\ turnEffect' = (next # currentPlayer)
                /\ gameLog' = << Log("endturn", clo.currentPlayer, next, 0) >>

endTurn ==
    /\ Tick
    /\ hasRolled
    /\ players[currentPlayer].money >= 0
    /\ winner = None
    /\ ~isAITurn
    /\ EndTurnFrom(Closure)
    /\ moneyEffect' = <<>>
    /\ UNCHANGED << players, ownership, mortgaged, houses, bankruptPlayers,
                    dice, rolling, activeCell, chanceIndex, chanceCard,
                    pendingTrade, showTrade, tradeWith, tradeOffer, isAITurn,
                    rollCtx, aiCtx >>


(***************************************************************************)
(* Automated player: the decision payload of fetchAIMoveDummy              *)
(***************************************************************************)
Action(type, cellId) == [type |-> type, cellId |-> cellId]

RECURSIVE Ascending(_)
Ascending(S) ==
    IF S = {} THEN <<>>
    ELSE LET m == CHOOSE x \in S : \A y \in S : x <= y
         IN  << m >> \o Ascending(S \ {m})

BuildActions(cells) == [i \in 1 .. Len(cells) |-> Action("build", cells[i])]

PostRollActions(clo, d) ==
    LET player == clo.players[clo.currentPlayer]
        landingPos == (player.position + d[1] + d[2]) % BoardSize
    IN  (IF /\ landingPos \in Ownable
            /\ clo.ownership[landingPos] = None
            /\ player.money > Price(landingPos) + AIReserve
         THEN << Action("buy", landingPos) >> ELSE <<>>)
        \o << Action("endTurn", None) >>

ownedProperties(clo) ==
    { c \in Streets : clo.ownership[c] = clo.currentPlayer }

MortgageCandidates(clo) ==
    IF clo.players[clo.currentPlayer].money < AIReserve
    THEN { c \in ownedProperties(clo) : ~clo.mortgaged[c] /\ clo.houses[c] = 0 }
    ELSE {}

(* d: the dice drawn by the collaborator; m: the mortgage candidate it     *)
(* picks, None when there is none.                                         *)
fetchAIMoveDummy(clo, d, m) ==
    LET player == clo.players[clo.currentPlayer]
        builds == { c \in ownedProperties(clo) :
                       /\ clo.houses[c] < MaxHouses
                       /\ player.money > HouseCost(c) + AIReserve }
    IN  IF player.inJail
        THEN IF player.jailFreeCard
             THEN [preRollActions |-> << Action("jailUseCard", None) >>,
                   roll |-> d, postRollActions |-> PostRollActions(clo, d)]
             ELSE IF player.money >= Bail
             THEN [preRollActions |-> << Action("jailPay", None) >>,
                   roll |-> d, postRollActions |-> PostRollActions(clo, d)]
             ELSE [preRollActions |-> << Action("jailStay", None) >>,
                   roll |-> <<>>,
                   postRollActions |-> << Action("endTurn", None) >>]
        ELSE [preRollActions |->
                  BuildActions(Ascending(builds))
                  \o (IF m # None THEN << Action("mortgage", m) >> ELSE <<>>),
              roll |-> d, postRollActions |-> PostRollActions(clo, d)]

(***************************************************************************)
(* The [currentPlayer] effect: logs the turn start and, for an automated   *)
(* player, starts runAITurn with the closure of this render.               *)
(***************************************************************************)
StartsAITurn ==
    players[currentPlayer].type = "ai" /\ winner = None /\ ~isAITurn

TurnStart ==
    /\ turnEffect
    /\ ~StartsAITurn
    /\ turnEffect' = FALSE
    /\ gameLog' = << Log("turn", currentPlayer, 0, 0) >>
    /\ UNCHANGED << players, currentPlayer, ownership, mortgaged, houses,
                    bankruptPlayers, dice, rolling, hasRolled, activeCell,
                    chanceIndex, chanceCard, pendingTrade, showTrade, tradeWith,
                    tradeOffer, isAITurn, rollCtx, aiCtx, moneyEffect, steps >>

runAITurn ==
    /\ turnEffect
    /\ StartsAITurn
    /\ turnEffect' = FALSE
    /\ isAITurn' = TRUE
    /\ \E d \in DicePairs :
       \E m \in (IF MortgageCandidates(Closure) = {} THEN {None}
                 ELSE MortgageCandidates(Closure)) :
          aiCtx' = [active |-> TRUE, clo |-> Closure, stage |-> "pre",
                    plan |-> fetchAIMoveDummy(Closure, d, m)]
    /\ gameLog' = << Log("turn", currentPlayer, 0, 0) >>
    /\ UNCHANGED << players, currentPlayer, ownership, mortgaged, houses,
                    bankruptPlayers, dice, rolling, hasRolled, activeCell,
                    chanceIndex, chanceCard, pendingTrade, showTrade, tradeWith,
                    tradeOffer, rollCtx, moneyEffect, steps >>


(***************************************************************************)
(* runAITurn: pre-roll actions, roll, post-roll actions, each awaited; the *)
(* functions it calls are those of the closure aiCtx.clo.                  *)
(***************************************************************************)
AtPost ==
    \/ aiCtx.stage = "post"
    \/ /\ aiCtx.stage = "pre"
       /\ aiCtx.plan.preRollActions = <<>>
       /\ aiCtx.plan.roll = <<>>

(* buildHouse(cellId, playerId, cost) called from the closure clo *)
BuildHouseFrom(clo, cellId, playerId, cost) ==
    LET current == houses[cellId]
        playerMoney == clo.players[playerId].money
    IN  IF current >= MaxHouses \/ playerMoney < cost
        THEN UNCHANGED << houses, players >>
        ELSE /\ houses' = [houses EXCEPT ![cellId] = current + 1]
             /\ players' = updateMoney(players, playerId, -cost)

(* sellHouse(cellId, playerId, refund) called from the closure clo *)
SellHouseFrom(clo, cellId, playerId, refund) ==
    IF clo.ownership[cellId] # playerId
    THEN UNCHANGED << houses, players >>
    ELSE /\ houses' = [houses EXCEPT ![cellId] = IF @ <= 0 THEN @ ELSE @ - 1]
         /\ players' = updateMoney(players, playerId, refund)

(* mortgageProperty(cellId, playerId, value) called from the closure clo *)
MortgageFrom(clo, cellId, playerId, value) ==
    IF clo.houses[cellId] > 0
    THEN UNCHANGED << mortgaged, players >>
    ELSE /\ mortgaged' = [mortgaged EXCEPT ![cellId] = TRUE]
         /\ players' = updateMoney(players, playerId, value)

(* unmortgageProperty(cellId, playerId, cost) *)
UnmortgageFrom(cellId, playerId, cost) ==
    /\ players' = IF players[playerId].money >= cost
                  THEN updateMoney(players, playerId, -cost) ELSE players
    /\ mortgaged' = [mortgaged EXCEPT ![cellId] = FALSE]

executeAIAction(action) ==
    LET clo == aiCtx.clo
        cp == clo.currentPlayer
        cell == action.cellId
    IN  CASE action.type = "build" ->
                /\ BuildHouseFrom(clo, cell, cp, HouseCost(cell))
                /\ gameLog' = << Log("built", cp, cell, HouseCost(cell)) >>
                /\ UNCHANGED << ownership, mortgaged, hasRolled, currentPlayer,
                                turnEffect >>
          [] action.type = "mortgage" ->
                /\ MortgageFrom(clo, cell, cp, MortgageValue(cell))
                /\ gameLog' = << Log("mortgaged", cp, cell, MortgageValue(cell)) >>
                /\ UNCHANGED << ownership, houses, hasRolled, currentPlayer,
                                turnEffect >>
          [] action.type = "buy" ->
                /\ ownership' = [ownership EXCEPT ![cell] = cp]
                /\ players' = updateMoney(players, cp, -Price(cell))
                /\ gameLog' = << Log("bought", cp, cell, Price(cell)) >>
                /\ UNCHANGED << mortgaged, houses, hasRolled, currentPlayer,
                                turnEffect >>
          [] action.type = "jailPay" ->
                /\ players' = releaseFromJail(updateMoney(players, cp, -Bail), cp)
                /\ gameLog' = << Log("jailPay", cp, Bail, 0) >>
                /\ UNCHANGED << ownership, mortgaged, houses, hasRolled,
                                currentPlayer, turnEffect >>
          [] action.type = "jailUseCard" ->
                /\ players' = releaseFromJail(players, cp)
                /\ gameLog' = << Log("jailUseCard", cp, 0, 0) >>
                /\ UNCHANGED << ownership, mortgaged, houses, hasRolled,
                                currentPlayer, turnEffect >>
          [] action.type = "jailStay" ->
                /\ players' = decrementJailTurn(players, cp)
                /\ gameLog' = << Log("jailStay", cp, 0, 0) >>
                /\ UNCHANGED << ownership, mortgaged, houses, hasRolled,
                                currentPlayer, turnEffect >>
          [] action.type = "endTurn" ->
                /\ EndTurnFrom(clo)
                /\ UNCHANGED << players, ownership, mortgaged, houses >>

AIExecPre ==
    /\ aiCtx.active /\ ~turnEffect
    /\ aiCtx.stage = "pre"
    /\ aiCtx.plan.preRollActions # <<>>
    /\ executeAIAction(Head(aiCtx.plan.preRollActions))
    /\ aiCtx' = [aiCtx EXCEPT !.plan.preRollActions = Tail(@)]
    /\ moneyEffect' = <<>>
    /\ UNCHANGED << bankruptPlayers, dice, rolling, activeCell, chanceIndex,
                    chanceCard, pendingTrade, showTrade, tradeWith, tradeOffer,
                    isAITurn, rollCtx, steps >>

rollDiceFromBackend ==
    /\ aiCtx.active /\ ~turnEffect
    /\ aiCtx.stage = "pre"
    /\ aiCtx.plan.preRollActions = <<>>
    /\ aiCtx.plan.roll # <<>>
    /\ rolling' = TRUE
    /\ dice' = aiCtx.plan.roll
    /\ aiCtx' = [aiCtx EXCEPT !.stage = "rolling"]
    /\ gameLog' = << Log("rolled", aiCtx.clo.currentPlayer,
                         aiCtx.plan.roll[1], aiCtx.plan.roll[2]) >>
    /\ moneyEffect' = <<>>
    /\ UNCHANGED << players, currentPlayer, ownership, mortgaged, houses,
                    bankruptPlayers, hasRolled, activeCell, chanceIndex,
                    chanceCard, pendingTrade, showTrade, tradeWith, tradeOffer,
                    isAITurn, turnEffect, rollCtx, steps >>

AIRollLand ==
    /\ aiCtx.active /\ ~turnEffect
    /\ aiCtx.stage = "rolling"
    /\ LET clo == aiCtx.clo
           cp == clo.currentPlayer
           d == aiCtx.plan.roll
           w == Walk(clo.players[cp].position, FALSE, d[1] + d[2])
           bonus == IF w.passedStart THEN StartBonus ELSE 0
           st0 == [Landing EXCEPT
                     !.players[cp].position = w.pos,
                     !.players[cp].money = @ + bonus,
                     !.moneyEffect = IF w.passedStart
                                     THEN << Effect(cp, StartBonus) >> ELSE <<>>,
                     !.gameLog = << Log("landed", cp, w.pos, bonus) >>]
           st1 == handleCellAction(st0, clo, w.pos, TRUE, w.pos, 0)
       IN  Commit(st1)
    /\ rolling' = FALSE
    /\ hasRolled' = TRUE
    /\ aiCtx' = [aiCtx EXCEPT !.stage = "post"]
    /\ UNCHANGED << currentPlayer, ownership, mortgaged, houses,
                    bankruptPlayers, dice, pendingTrade, showTrade, tradeWith,
                    tradeOffer, isAITurn, turnEffect, rollCtx, steps >>

AIExecPost ==
    /\ aiCtx.active /\ ~turnEffect
    /\ AtPost
    /\ aiCtx.plan.postRollActions # <<>>
    /\ executeAIAction(Head(aiCtx.plan.postRollActions))
    /\ aiCtx' = [aiCtx EXCEPT !.plan.postRollActions = Tail(@), !.stage = "post"]
    /\ moneyEffect' = <<>>
    /\ UNCHANGED << bankruptPlayers, dice, rolling, activeCell, chanceIndex,
                    chanceCard, pendingTrade, showTrade, tradeWith, tradeOffer,
                    isAITurn, rollCtx, steps >>

AIFinish ==
    /\ aiCtx.active /\ ~turnEffect
    /\ AtPost
    /\ aiCtx.plan.postRollActions = <<>>
    /\ isAITurn' = FALSE
    /\ aiCtx' = NoCtx
    /\ gameLog' = <<>> /\ moneyEffect' = <<>>
    /\ UNCHANGED << players, currentPlayer, ownership, mortgaged, houses,
                    bankruptPlayers, dice, rolling, hasRolled, activeCell,
                    chanceIndex, chanceCard, pendingTrade, showTrade, tradeWith,
                    tradeOffer, turnEffect, rollCtx, steps >>


(***************************************************************************)
(* Manage Assets (MortgageModal of the active player)                      *)
(***************************************************************************)
HudActions == ~IsBankrupt(currentPlayer)

ownsFullColorSet(cell) ==
    \A c \in SameColorCells(cell) : ownership[c] = currentPlayer

MinOf(S, f) ==
    LET c == CHOOSE x \in S : \A y \in S : f[x] <= f[y] IN f[c]

MaxOf(S, f) ==
    LET c == CHOOSE x \in S : \A y \in S : f[x] >= f[y] IN f[c]

canBuildHere(cell) ==
    /\ ownsFullColorSet(cell)
    /\ houses[cell] = MinOf(SameColorCells(cell), houses)

canSellHere(cell) ==
    /\ ownsFullColorSet(cell)
    /\ houses[cell] = MaxOf(SameColorCells(cell), houses)
    /\ MaxOf(SameColorCells(cell), houses) > 0

UnmortgageCost(c) == (MortgageValue(c) * 11) \div 10

AssetFrame ==
    /\ moneyEffect' = <<>>
    /\ UNCHANGED << currentPlayer, ownership, bankruptPlayers, dice, rolling,
                    hasRolled, activeCell, chanceIndex, chanceCard,
                    pendingTrade, showTrade, tradeWith, tradeOffer, isAITurn,
                    turnEffect, rollCtx, aiCtx >>

onMortgage ==
    /\ Tick /\ HudActions
    /\ \E c \in Ownable :
        /\ ownership[c] = currentPlayer
        /\ ~mortgaged[c]
        /\ c \in Streets => houses[c] = 0
        /\ MortgageFrom(Closure, c, currentPlayer, MortgageValue(c))
        /\ gameLog' = <<>>
    /\ UNCHANGED houses
    /\ AssetFrame

onUnmortgage ==
    /\ Tick /\ HudActions
    /\ \E c \in Ownable :
        /\ ownership[c] = currentPlayer
        /\ mortgaged[c]
        /\ players[currentPlayer].money >= UnmortgageCost(c)
        /\ UnmortgageFrom(c, currentPlayer, UnmortgageCost(c))
        /\ gameLog' = <<>>
    /\ UNCHANGED houses
    /\ AssetFrame

onBuildHouse ==
    /\ Tick /\ HudActions
    /\ \E c \in Streets :
        /\ ownership[c] = currentPlayer
        /\ ownsFullColorSet(c) /\ ~mortgaged[c]
        /\ players[currentPlayer].money >= HouseCost(c)
        /\ houses[c] < MaxHouses
        /\ canBuildHere(c)            \* otherwise the handler returns
        /\ BuildHouseFrom(Closure, c, currentPlayer, HouseCost(c))
        /\ gameLog' = <<>>
    /\ UNCHANGED mortgaged
    /\ AssetFrame

onSellHouse ==
    /\ Tick /\ HudActions
    /\ \E c \in Streets :
        /\ ownership[c] = currentPlayer
        /\ ownsFullColorSet(c) /\ ~mortgaged[c]
        /\ houses[c] # 0
        /\ canSellHere(c)             \* otherwise the handler returns
        /\ SellHouseFrom(Closure, c, currentPlayer, HouseCost(c) \div 2)
        /\ gameLog' = <<>>
    /\ UNCHANGED mortgaged
    /\ AssetFrame

(***************************************************************************)
(* Jail panel of a human player                                            *)
(***************************************************************************)
JailPanel ==
    players[currentPlayer].inJail /\ players[currentPlayer].type # "ai"

JailFrame ==
    /\ moneyEffect' = <<>>
    /\ UNCHANGED << ownership, mortgaged, houses, bankruptPlayers, dice,
                    rolling, activeCell, chanceIndex, chanceCard, pendingTrade,
                    showTrade, tradeWith, tradeOffer, isAITurn, rollCtx, aiCtx >>

payBail ==
    /\ Tick /\ JailPanel
    /\ players[currentPlayer].money >= Bail
    /\ players' = releaseFromJail(updateMoney(players, currentPlayer, -Bail),
                                  currentPlayer)
    /\ gameLog' = << Log("jailPay", currentPlayer, Bail, 0) >>
    /\ UNCHANGED << currentPlayer, hasRolled, turnEffect >>
    /\ JailFrame

useJailFreeCard ==
    /\ Tick /\ JailPanel
    /\ players[currentPlayer].jailFreeCard
    /\ players' = [releaseFromJail(players, currentPlayer)
                     EXCEPT ![currentPlayer].jailFreeCard = FALSE]
    /\ gameLog' = << Log("jailUseCard", currentPlayer, 0, 0) >>
    /\ UNCHANGED << currentPlayer, hasRolled, turnEffect >>
    /\ JailFrame

(* Stay in Jail: the countdown, setHasRolled(true), then endTurn() of the  *)
(* same render, which still sees the old hasRolled.                        *)
stayInJail ==
    /\ Tick /\ JailPanel
    /\ LET nextTurns == players[currentPlayer].jailTurnsLeft - 1
       IN  players' = [players EXCEPT
                         ![currentPlayer].jailTurnsLeft = nextTurns,
                         ![currentPlayer].inJail = nextTurns > 0]
    /\ IF hasRolled
       THEN EndTurnFrom(Closure)
       ELSE /\ hasRolled' = TRUE
            /\ gameLog' = <<>>
            /\ UNCHANGED << currentPlayer, turnEffect >>
    /\ JailFrame


(***************************************************************************)
(* Trade builder (TradeModal) and review (TradeReviewModal)                *)
(***************************************************************************)
TradeAmounts == {0, 100}      \* the gold amounts typed into the builder

isTradable(cell, ownerIndex) ==
    /\ ownership[cell] = ownerIndex
    /\ ~mortgaged[cell]
    /\ ~(CellType(cell) = "property" /\ houses[cell] > 0)

myCells == { c \in Ownable : isTradable(c, currentPlayer) }

theirCells ==
    IF tradeWith = None THEN {} ELSE { c \in Ownable : isTradable(c, tradeWith) }

toggle(list, id) == IF id \in list THEN list \ {id} ELSE list \cup {id}

isValidTrade ==
    LET myMoney == players[currentPlayer].money
        theirMoney == IF tradeWith # None THEN players[tradeWith].money ELSE 0
        canGiveMoney == tradeOffer.giveMoney = 0 \/ tradeOffer.giveMoney <= myMoney
        canTakeMoney == tradeOffer.takeMoney = 0 \/ tradeOffer.takeMoney <= theirMoney
    IN  /\ canGiveMoney /\ canTakeMoney
        /\ \/ tradeOffer.giveProperties # {}
           \/ tradeOffer.takeProperties # {}
           \/ tradeOffer.giveMoney > 0
           \/ tradeOffer.takeMoney > 0

TradeFrame ==
    /\ gameLog' = <<>> /\ moneyEffect' = <<>>
    /\ UNCHANGED << currentPlayer, mortgaged, houses, bankruptPlayers, dice,
                    rolling, hasRolled, activeCell, chanceIndex, chanceCard,
                    isAITurn, turnEffect, rollCtx, aiCtx >>

onOpenTrade ==
    /\ Tick /\ HudActions
    /\ ~showTrade
    /\ showTrade' = TRUE
    /\ UNCHANGED << players, ownership, pendingTrade, tradeWith, tradeOffer >>
    /\ TradeFrame

setTradeWith ==
    /\ Tick /\ showTrade
    /\ \E q \in Players \ {currentPlayer} :
        /\ q # tradeWith
        /\ tradeWith' = q
    /\ UNCHANGED << players, ownership, pendingTrade, showTrade, tradeOffer >>
    /\ TradeFrame

toggleGive ==
    /\ Tick /\ showTrade /\ tradeWith # None
    /\ \E id \in myCells :
        tradeOffer' = [tradeOffer EXCEPT !.giveProperties = toggle(@, id)]
    /\ UNCHANGED << players, ownership, pendingTrade, showTrade, tradeWith >>
    /\ TradeFrame

toggleTake ==
    /\ Tick /\ showTrade /\ tradeWith # None
    /\ \E id \in theirCells :
        tradeOffer' = [tradeOffer EXCEPT !.takeProperties = toggle(@, id)]
    /\ UNCHANGED << players, ownership, pendingTrade, showTrade, tradeWith >>
    /\ TradeFrame

onGiveMoney ==
    /\ Tick /\ showTrade /\ tradeWith # None
    /\ \E g \in TradeAmounts \ {tradeOffer.giveMoney} :
        tradeOffer' = [tradeOffer EXCEPT !.giveMoney = g]
    /\ UNCHANGED << players, ownership, pendingTrade, showTrade, tradeWith >>
    /\ TradeFrame

onTakeMoney ==
    /\ Tick /\ showTrade /\ tradeWith # None
    /\ \E t \in TradeAmounts \ {tradeOffer.takeMoney} :
        tradeOffer' = [tradeOffer EXCEPT !.takeMoney = t]
    /\ UNCHANGED << players, ownership, pendingTrade, showTrade, tradeWith >>
    /\ TradeFrame

handleConfirmTrade ==
    /\ Tick /\ showTrade /\ tradeWith # None
    /\ isValidTrade
    /\ pendingTrade' = [from |-> currentPlayer, to |-> tradeWith,
                        giveProperties |-> tradeOffer.giveProperties,
                        takeProperties |-> tradeOffer.takeProperties,
                        giveMoney |-> tradeOffer.giveMoney,
                        takeMoney |-> tradeOffer.takeMoney]
    /\ showTrade' = FALSE
    /\ UNCHANGED << players, ownership, tradeWith, tradeOffer >>
    /\ TradeFrame

onCloseTrade ==
    /\ Tick /\ showTrade
    /\ showTrade' = FALSE
    /\ tradeWith' = None
    /\ tradeOffer' = EmptyOffer
    /\ UNCHANGED << players, ownership, pendingTrade >>
    /\ TradeFrame

applyTrade ==
    /\ Tick
    /\ pendingTrade # NoTrade
    /\ LET from == pendingTrade.from
           to == pendingTrade.to
           offer == pendingTrade
           given == [c \in Ownable |->
                        IF c \in offer.giveProperties THEN to ELSE ownership[c]]
           paid1 == IF offer.giveMoney > 0
                    THEN updateMoney(updateMoney(players, from, -offer.giveMoney),
                                     to, offer.giveMoney)
                    ELSE players
           paid2 == IF offer.takeMoney > 0
                    THEN updateMoney(updateMoney(paid1, to, -offer.takeMoney),
                                     from, offer.takeMoney)
                    ELSE paid1
       IN  /\ ownership' = [c \in Ownable |->
                              IF c \in offer.takeProperties THEN from ELSE given[c]]
           /\ players' = paid2
    /\ pendingTrade' = NoTrade
    /\ tradeWith' = None
    /\ tradeOffer' = EmptyOffer
    /\ UNCHANGED showTrade
    /\ TradeFrame

onRejectTrade ==
    /\ Tick
    /\ pendingTrade # NoTrade
    /\ pendingTrade' = NoTrade
    /\ UNCHANGED << players, ownership, showTrade, tradeWith, tradeOffer >>
    /\ TradeFrame

(***************************************************************************)
(* ChanceModal: the human player acknowledges the card                     *)
(***************************************************************************)
acknowledgeChanceCard ==
    /\ Tick
    /\ chanceCard # NoCard
    /\ players[currentPlayer].type = "human"
    /\ LET st == applyChance(Landing, Closure, chanceCard, None, 0)
       IN  Commit(st) /\ hasRolled' = st.hasRolled
    /\ UNCHANGED << currentPlayer, ownership, mortgaged, houses,
                    bankruptPlayers, dice, rolling, pendingTrade, showTrade,
                    tradeWith, tradeOffer, isAITurn, turnEffect, rollCtx, aiCtx >>

(***************************************************************************)
(* BankruptcyModal onConfirm: declareBankruptcy and the hand-over          *)
(***************************************************************************)
ClearOwnership(own, playerId) ==
    [c \in Ownable |-> IF own[c] # playerId THEN own[c] ELSE None]

(* Faulty variant of ClearMortgaged: the filter reads the ownership map  *)
(* already cleared, so every mortgage flag survives.                     *)
ClearMortgagedByNewOwnership(own, mort, playerId) ==
    [c \in Ownable |->
        IF ClearOwnership(own, playerId)[c] # playerId THEN mort[c] ELSE FALSE]

(* the filter reads ownership of the render that created the handler *)
ClearMortgaged(own, mort, playerId) ==
    [c \in Ownable |-> IF own[c] # playerId THEN mort[c] ELSE FALSE]

ClearHouses(own, hs, playerId) ==
    [c \in Ownable |-> IF own[c] # playerId THEN hs[c] ELSE 0]

MarkBankrupt(list, playerId) ==
    IF Includes(list, playerId) THEN list ELSE Append(list, playerId)

declareBankruptcy ==
    /\ Tick
    /\ ~IsBankrupt(currentPlayer)
    /\ players[currentPlayer].money < 0
    /\ LET p == currentPlayer
           next == NextPlayer(bankruptPlayers, p, NumPlayers)
       IN  /\ ownership' = ClearOwnership(ownership, p)
           /\ mortgaged' = ClearMortgaged(ownership, mortgaged, p)
           /\ houses' = ClearHouses(ownership, houses, p)
           /\ bankruptPlayers' = MarkBankrupt(bankruptPlayers, p)
           /\ hasRolled' = FALSE
           /\ currentPlayer' = next
           /\ turnEffect' = (next # p)
           /\ gameLog' = <<>>
    /\ moneyEffect' = <<>>
    /\ UNCHANGED << players, dice, rolling, activeCell, chanceIndex,
                    chanceCard, pendingTrade, showTrade, tradeWith, tradeOffer,
                    isAITurn, rollCtx, aiCtx >>


(***************************************************************************)
(* Initial states: positions of a game in progress, at the start of a turn *)
(***************************************************************************)
PlayerTypes == << "human", "ai", "human" >>

StartPositions == {20, 35}
StartCash == {20, 1500}

InitOwnership ==
    [c \in Ownable |->
        IF c \in {1, 3, 12} THEN 0
        ELSE IF c \in {6, 8, 9, 15} THEN 1
        ELSE IF c \in {5, 25, 35, 28, 37, 39} THEN 2
        ELSE None]

InitMortgaged == [c \in Ownable |-> c = 35]

InitHouses == [c \in Ownable |-> IF c \in {6, 8} THEN 1 ELSE 0]

(* an offer of player 0 to player 2, valid when it was proposed *)
InitOffer == [giveProperties |-> {3}, takeProperties |-> {5},
              giveMoney |-> 100, takeMoney |-> 0]

InitPending == [from |-> 0, to |-> 2,
                giveProperties |-> InitOffer.giveProperties,
                takeProperties |-> InitOffer.takeProperties,
                giveMoney |-> InitOffer.giveMoney,
                takeMoney |-> InitOffer.takeMoney]

NewPlayer(i, money, position) ==
    [type |-> PlayerTypes[i + 1], money |-> money, position |-> position,
     inJail |-> FALSE, jailTurnsLeft |-> 0, jailFreeCard |-> FALSE]

Jailed(p, turns, card) ==
    [p EXCEPT !.position = JailPosition, !.inJail = TRUE,
              !.jailTurnsLeft = turns, !.jailFreeCard = card]

InitCommon ==
    /\ rolling = FALSE
    /\ hasRolled = FALSE
    /\ activeCell = None
    /\ isAITurn = FALSE
    /\ rollCtx = NoCtx
    /\ aiCtx = NoCtx
    /\ gameLog = <<>>
    /\ moneyEffect = <<>>
    /\ steps = 0

(* no trade in sight *)
InitNoTrade ==
    /\ pendingTrade = NoTrade
    /\ showTrade = FALSE
    /\ tradeWith = None
    /\ tradeOffer = EmptyOffer

(* player 0 has assembled InitOffer; the builder is still open, or the    *)
(* offer has been proposed and waits for its review, or the builder has   *)
(* been opened again while the offer waits                                *)
InitTrade ==
    /\ currentPlayer = 0
    /\ ~players[0].inJail
    /\ players[0].money >= InitOffer.giveMoney
    /\ tradeWith = 2
    /\ tradeOffer = InitOffer
    /\ \/ showTrade = TRUE /\ pendingTrade = NoTrade
       \/ showTrade = FALSE /\ pendingTrade = InitPending
       \/ showTrade = TRUE /\ pendingTrade = InitPending

(* every player still in the game, at the start of a turn *)
InitPlaying ==
    /\ InitCommon
    /\ ownership = InitOwnership
    /\ mortgaged = InitMortgaged
    /\ houses = InitHouses
    /\ bankruptPlayers = <<>>
    /\ dice = << 1, 1 >>
    /\ currentPlayer \in Players
    /\ turnEffect = (PlayerTypes[currentPlayer + 1] = "ai")
    /\ chanceIndex \in {0, 3}
    /\ chanceCard = NoCard
    /\ \E pos \in StartPositions, cash \in StartCash,
          jail \in {<<0, FALSE>>, <<1, FALSE>>, <<3, TRUE>>} :
        players = [i \in Players |->
                     IF i = currentPlayer /\ jail[1] > 0
                     THEN Jailed(NewPlayer(i, cash, pos), jail[1], jail[2])
                     ELSE NewPlayer(i, cash, pos)]
    /\ InitNoTrade \/ (chanceIndex = 0 /\ InitTrade)

(* the game after player 0, with 20 gold on cell 35, rolled 1 + 2 onto    *)
(* the tax cell 38 and declared bankruptcy: the turn passes to player 1   *)
InitAfterBankruptcy ==
    /\ InitCommon
    /\ ownership = ClearOwnership(InitOwnership, 0)
    /\ mortgaged = ClearMortgaged(InitOwnership, InitMortgaged, 0)
    /\ houses = ClearHouses(InitOwnership, InitHouses, 0)
    /\ bankruptPlayers = << 0 >>
    /\ dice = << 1, 2 >>
    /\ currentPlayer = 1
    /\ turnEffect = TRUE
    /\ chanceIndex \in {0, 2, 6}
    /\ chanceCard = NoCard
    /\ players = [i \in Players |->
                    IF i = 0 THEN NewPlayer(0, 20 - TaxAmount(38), 38)
                    ELSE NewPlayer(i, 20, 35)]
    /\ InitNoTrade

(* the game two turns after player 0, with 20 gold on cell 20 and the     *)
(* deck at card 3, rolled 1 + 1 onto the chance cell 22 and ended the     *)
(* turn with the card unacknowledged; player 1 mortgaged street 9 and     *)
(* rolled 2 + 2 onto cell 24, its turn was ended, and the turn of         *)
(* player 2 has started with the card still on show                       *)
InitStaleCard ==
    /\ InitCommon
    /\ ownership = InitOwnership
    /\ mortgaged = [InitMortgaged EXCEPT ![9] = TRUE]
    /\ houses = InitHouses
    /\ bankruptPlayers = <<>>
    /\ dice = << 2, 2 >>
    /\ currentPlayer = 2
    /\ turnEffect = FALSE
    /\ chanceIndex = 4
    /\ chanceCard = chanceCards[4]
    /\ players = [i \in Players |->
                    CASE i = 0 -> NewPlayer(0, 20, 22)
                      [] i = 1 -> NewPlayer(1, 20 + MortgageValue(9), 24)
                      [] i = 2 -> NewPlayer(2, 20, 20)]
    /\ InitNoTrade

(* the game one turn after InitAfterBankruptcy: player 1 mortgaged street  *)
(* 9 and rolled 2 + 3 from cell 35 onto the start cell, its turn was      *)
(* ended, and the turn of player 2 has started                            *)
InitBankruptSkipped ==
    /\ InitCommon
    /\ ownership = ClearOwnership(InitOwnership, 0)
    /\ mortgaged = [ClearMortgaged(InitOwnership, InitMortgaged, 0)
                      EXCEPT ![9] = TRUE]
    /\ houses = ClearHouses(InitOwnership, InitHouses, 0)
    /\ bankruptPlayers = << 0 >>
    /\ dice = << 2, 3 >>
    /\ currentPlayer = 2
    /\ turnEffect = FALSE
    /\ chanceIndex \in {0, 2, 6}
    /\ chanceCard = NoCard
    /\ players = [i \in Players |->
                    CASE i = 0 -> NewPlayer(0, 20 - TaxAmount(38), 38)
                      [] i = 1 -> NewPlayer(1, 20 + MortgageValue(9) + StartBonus, 0)
                      [] i = 2 -> NewPlayer(2, 20, 35)]
    /\ InitNoTrade

(* a game in progress in which the automated player 1 has also bought the  *)
(* streets 11, 13 and 14, is down to 400 gold and stands on street 24; its *)
(* turn is starting                                                        *)
InitAIBuilder ==
    /\ InitCommon
    /\ ownership = [InitOwnership EXCEPT ![11] = 1, ![13] = 1, ![14] = 1]
    /\ mortgaged = InitMortgaged
    /\ houses = InitHouses
    /\ bankruptPlayers = <<>>
    /\ dice = << 1, 1 >>
    /\ currentPlayer = 1
    /\ turnEffect = TRUE
    /\ chanceIndex = 0
    /\ chanceCard = NoCard
    /\ players = [i \in Players |->
                    IF i = 1 THEN NewPlayer(1, 400, 24)
                    ELSE NewPlayer(i, 1500, 35)]
    /\ InitNoTrade

(* a game in progress in which player 0, on street 24 with the deck at     *)
(* card 0, has rolled 4 + 5 onto the chance cell 33: the card is on show   *)
InitOnChance ==
    /\ rolling = FALSE
    /\ hasRolled = TRUE
    /\ activeCell = None
    /\ isAITurn = FALSE
    /\ rollCtx = NoCtx
    /\ aiCtx = NoCtx
    /\ gameLog = <<>>
    /\ moneyEffect = <<>>
    /\ steps = 0
    /\ ownership = InitOwnership
    /\ mortgaged = InitMortgaged
    /\ houses = InitHouses
    /\ bankruptPlayers = <<>>
    /\ dice = << 4, 5 >>
    /\ currentPlayer = 0
    /\ turnEffect = FALSE
    /\ \E k \in {1, 6, 11} :
        /\ chanceIndex = k
        /\ chanceCard = chanceCards[k]
    /\ players = [i \in Players |->
                    IF i = 0 THEN NewPlayer(0, 1500, 33)
                    ELSE NewPlayer(i, 1500, 35)]
    /\ InitNoTrade

(* player 2 proposed, on its own turn, to give station 5 to player 0; the  *)
(* offer still waits for its review when player 0, with 20 gold on cell   *)
(* 35, has rolled 1 + 2 onto the tax cell 38; the automated player 1 is   *)
(* still in the game, or went bankrupt before the offer was made          *)
OfferToDebtor == [from |-> 2, to |-> 0,
                  giveProperties |-> {5}, takeProperties |-> {},
                  giveMoney |-> 0, takeMoney |-> 0]

InitOfferToDebtor ==
    /\ rolling = FALSE
    /\ hasRolled = TRUE
    /\ activeCell = None
    /\ isAITurn = FALSE
    /\ rollCtx = NoCtx
    /\ aiCtx = NoCtx
    /\ gameLog = <<>>
    /\ moneyEffect = <<>>
    /\ steps = 0
    /\ \/ /\ bankruptPlayers = <<>>
          /\ ownership = InitOwnership
          /\ mortgaged = InitMortgaged
          /\ houses = InitHouses
       \/ /\ bankruptPlayers = << 1 >>
          /\ ownership = ClearOwnership(InitOwnership, 1)
          /\ mortgaged = ClearMortgaged(InitOwnership, InitMortgaged, 1)
          /\ houses = ClearHouses(InitOwnership, InitHouses, 1)
    /\ dice = << 1, 2 >>
    /\ currentPlayer = 0
    /\ turnEffect = FALSE
    /\ chanceIndex = 0
    /\ chanceCard = NoCard
    /\ players = [i \in Players |->
                    IF i = 0 THEN NewPlayer(0, 20 - TaxAmount(38), 38)
                    ELSE NewPlayer(i, 20, 35)]
    /\ pendingTrade = OfferToDebtor
    /\ showTrade = FALSE
    /\ tradeWith = OfferToDebtor.to
    /\ tradeOffer = [giveProperties |-> OfferToDebtor.giveProperties,
                     takeProperties |-> OfferToDebtor.takeProperties,
                     giveMoney |-> OfferToDebtor.giveMoney,
                     takeMoney |-> OfferToDebtor.takeMoney]

Init ==
    \/ InitPlaying \/ InitAfterBankruptcy \/ InitStaleCard
    \/ InitBankruptSkipped \/ InitAIBuilder \/ InitOnChance
    \/ InitOfferToDebtor

Next ==
    \/ rollDice \/ RollLand \/ buyProperty \/ onSkip \/ endTurn
    \/ TurnStart \/ runAITurn \/ AIExecPre \/ rollDiceFromBackend
    \/ AIRollLand \/ AIExecPost \/ AIFinish
    \/ onMortgage \/ onUnmortgage \/ onBuildHouse \/ onSellHouse
    \/ payBail \/ useJailFreeCard \/ stayInJail
    \/ onOpenTrade \/ setTradeWith \/ toggleGive \/ toggleTake
    \/ onGiveMoney \/ onTakeMoney \/ handleConfirmTrade \/ onCloseTrade
    \/ applyTrade \/ onRejectTrade
    \/ acknowledgeChanceCard \/ declareBankruptcy

Spec == Init /\ [][Next]_vars

(***************************************************************************)
(* The automated turn under its scheduling: the awaited delays, the        *)
(* collaborator's reply and the movement interval of runAITurn always      *)
(* complete, so a step of the automated turn that is enabled is taken.     *)
(* The clicks of the human players are under no such obligation.           *)
(***************************************************************************)
AITurnStep ==
    \/ runAITurn \/ AIExecPre \/ rollDiceFromBackend
    \/ AIRollLand \/ AIExecPost \/ AIFinish

SpecAI == Spec /\ WF_vars(AITurnStep)

(***************************************************************************)
(* The commands behind the buttons, called directly: the page renders or   *)
(* enables a button only in some states, the function it calls can be      *)
(* invoked in any.  The acting player is the active player.                *)
(***************************************************************************)
UnmortgageCells == {9, 35}      \* cells named in a direct unmortgage call
SellCells == {3, 6}             \* cells named in a direct sellHouse call

unmortgagePropertyOf(c) ==
    /\ Tick
    /\ mortgaged[c]
    /\ UnmortgageFrom(c, currentPlayer, UnmortgageCost(c))
    /\ gameLog' = <<>>
    /\ UNCHANGED houses
    /\ AssetFrame

unmortgageProperty == \E c \in UnmortgageCells : unmortgagePropertyOf(c)

sellHouseOf(c) ==
    /\ Tick
    /\ SellHouseFrom(Closure, c, currentPlayer, HouseCost(c) \div 2)
    /\ gameLog' = <<>>
    /\ UNCHANGED mortgaged
    /\ AssetFrame

sellHouse == \E c \in SellCells : sellHouseOf(c)

NextCommands == Next \/ skipProperty \/ unmortgageProperty \/ sellHouse

SpecCommands == Init /\ [][NextCommands]_vars

(***************************************************************************)
(* Vocabulary of the properties                                            *)
(***************************************************************************)
(* a step that completes a roll: the log of the step opens with the        *)
(* landing of the mover                                                    *)
LandingStep ==
    /\ rolling /\ ~rolling'
    /\ gameLog' # <<>>
    /\ gameLog'[1].kind = "landed"

(* position from which the roll in progress of player m was started *)
RollStart(m) ==
    IF players[m].type = "ai" THEN players[m].position ELSE rollCtx.startPos

(* dice total of the roll in progress of player m *)
RollTotal(m) ==
    IF players[m].type = "ai"
    THEN aiCtx.plan.roll[1] + aiCtx.plan.roll[2]
    ELSE rollCtx.steps

(* no other command has changed the roster or the ownership map since the  *)
(* roll in progress of player m began                                      *)
Undisturbed(m) ==
    IF players[m].type = "ai"
    THEN aiCtx.clo.ownership = ownership
    ELSE rollCtx.clo.players = players /\ rollCtx.clo.ownership = ownership

(* a cell whose landing moves nobody and charges nothing to player m *)
QuietCell(c, m) ==
    /\ c \notin ChanceCells \cup TaxCells \cup {GoToJailCell}
    /\ c \in Ownable => ownership[c] \in {None, m}

(* rent charged by the landing that opens the log *)
RentCharged ==
    IF Len(gameLog) >= 2 /\ gameLog[2].kind = "rent" THEN gameLog[2].b ELSE 0

(* unmortgaged cells of a kind held by owner, in the current state *)
HeldNow(owner, kind) ==
    Cardinality({ c \in kind : ownership[c] = owner /\ ~mortgaged[c] })

(* the landing of the step is on an unmortgaged cell of kind owned by      *)
(* somebody other than the mover                                           *)
LandsOnForeign(kind) ==
    /\ LandingStep
    /\ gameLog'[1].a \in kind
    /\ ownership[gameLog'[1].a] \notin {None, gameLog'[1].player}
    /\ ~mortgaged[gameLog'[1].a]

C2_StreetRentCharged ==
    [][LandsOnForeign(Streets) =>
        LET c == gameLog'[1].a
        IN  RentCharged' = StreetRent(c)[Min(houses[c], MaxHouses) + 1]
    ]_vars

(***************************************************************************)
(* C3.  Landing on an unmortgaged railroad owned by another player charges *)
(* railroadRentTable[n - 1], n the number of unmortgaged railroads that    *)
(* owner holds at that moment, and n is at least 1.                        *)
(***************************************************************************)
C3_RailroadRentCharged ==
    [][LandsOnForeign(Railroads) =>
        LET c == gameLog'[1].a
            n == HeldNow(ownership[c], Railroads)
        IN  n >= 1 /\ RentCharged' = RailroadRent[n]
    ]_vars

(***************************************************************************)
(* C4.  Landing on an unmortgaged utility owned by another player charges  *)
(* the dice total of the roll that brought the player there times the      *)
(* multiplier (twoOwned when the owner holds exactly 2 unmortgaged         *)
(* utilities, oneOwned otherwise), never the dice of an earlier roll.      *)
(***************************************************************************)
C4_UtilityRentCharged ==
    [][LandsOnForeign(Utilities) =>
        LET c == gameLog'[1].a
            m == gameLog'[1].player
            multiplier == IF HeldNow(ownership[c], Utilities) = 2
                          THEN RentMultiplier.two ELSE RentMultiplier.one
        IN  RentCharged' = RollTotal(m) * multiplier
    ]_vars

(***************************************************************************)
(* C5.  In every reachable state, within each color group no cell has more *)
(* than one house above the group's minimum.                               *)
(***************************************************************************)
C5_EvenBuild ==
    \A c \in Streets : houses[c] <= MinOf(SameColorCells(c), houses) + 1

(***************************************************************************)
(* C6.  Accepting a pending trade is atomic.  A step that resolves the     *)
(* pending trade either leaves the ownership map and every player's cash   *)
(* as they were, or the offer is not stale and the step hands over every   *)
(* listed property and settles both cash legs in full; a stale offer (a    *)
(* listed property no longer owned by its giver, mortgaged or built on, a  *)
(* cash leg its payer cannot pay, a bankrupt party) changes nothing.       *)
(***************************************************************************)
Stale(t) ==
    \/ \E c \in t.giveProperties :
          ownership[c] # t.from \/ mortgaged[c] \/ houses[c] > 0
    \/ \E c \in t.takeProperties :
          ownership[c] # t.to \/ mortgaged[c] \/ houses[c] > 0
    \/ players[t.from].money < t.giveMoney
    \/ players[t.to].money < t.takeMoney
    \/ IsBankrupt(t.from) \/ IsBankrupt(t.to)

C6_TradeAtomic ==
    [][(pendingTrade # NoTrade /\ pendingTrade' = NoTrade) =>
        LET t == pendingTrade
            cash == [i \in Players |->
                        players[i].money
                        + (IF i = t.from THEN t.takeMoney - t.giveMoney ELSE 0)
                        + (IF i = t.to THEN t.giveMoney - t.takeMoney ELSE 0)]
        IN  \/ /\ ownership' = ownership
               /\ \A i \in Players : players'[i].money = players[i].money
            \/ /\ ~Stale(t)
               /\ \A c \in Ownable :
                     ownership'[c] = IF c \in t.takeProperties THEN t.from
                                     ELSE IF c \in t.giveProperties THEN t.to
                                     ELSE ownership[c]
               /\ \A i \in Players : players'[i].money = cash[i]
    ]_vars

(***************************************************************************)
(* C7.  A stay in jail, of a human or an automated player, releases the    *)
(* player exactly when the decrement brings jailTurnsLeft to 0 (from 1:    *)
(* jailTurnsLeft = 0 and inJail = false) and debits no cash.               *)
(***************************************************************************)
StayStep(m) ==
    /\ players[m].inJail
    /\ players'[m].jailTurnsLeft = players[m].jailTurnsLeft - 1
    /\ ~(gameLog' # <<>> /\ gameLog'[1].kind \in {"jailPay", "jailUseCard"})

C7_StayReleasesAtZero ==
    [][\A m \in Players :
        StayStep(m) =>
            /\ players'[m].inJail = (players'[m].jailTurnsLeft > 0)
            /\ players'[m].money = players[m].money
    ]_vars

(***************************************************************************)
(* C8.  Immediately after declareBankruptcy(p) no cell maps to p in the    *)
(* ownership map, no cell that p owned is mortgaged or carries a house,    *)
(* and the ownership, mortgage and house entries of the cells of the       *)
(* other players are unchanged.                                            *)
(***************************************************************************)
BankruptcyStep == Len(bankruptPlayers') = Len(bankruptPlayers) + 1

C8_BankruptcyClearsHoldings ==
    [][BankruptcyStep =>
        LET p == bankruptPlayers'[Len(bankruptPlayers')]
        IN  \A c \in Ownable :
              /\ ownership'[c] # p
              /\ ownership[c] = p => (~mortgaged'[c] /\ houses'[c] = 0)
              /\ ownership[c] # p =>
                    /\ ownership'[c] = ownership[c]
                    /\ mortgaged'[c] = mortgaged[c]
                    /\ houses'[c] = houses[c]
    ]_vars

(* player 2, who held the mortgaged railroad 35, has just been declared    *)
(* bankrupt: the railroad is back with the bank, unmortgaged, and the      *)
(* houses of player 1 stand                                                *)
C8_Witness ==
    /\ bankruptPlayers = << 2 >>
    /\ currentPlayer = 0 /\ turnEffect
    /\ ownership[35] = None /\ ~mortgaged[35]
    /\ ownership[6] = 1 /\ houses[6] >= 1

(***************************************************************************)
(* C9.  After declareBankruptcy(p), p's cash is 0 and p is in the bankrupt *)
(* list exactly once.                                                      *)
(***************************************************************************)
C9_BankruptCashZero ==
    [][BankruptcyStep =>
        LET p == bankruptPlayers'[Len(bankruptPlayers')]
        IN  /\ players'[p].money = 0
            /\ Cardinality({ k \in 1 .. Len(bankruptPlayers') :
                               bankruptPlayers'[k] = p }) = 1
    ]_vars

(***************************************************************************)
(* C10.  In every reachable state the winner is defined exactly when one   *)
(* player is not bankrupt, and is then that player; with none, or with two *)
(* or more, it is undefined.                                               *)
(***************************************************************************)
C10_WinnerIffSoleSurvivor ==
    LET alive == { i \in Players :
                     \A k \in 1 .. Len(bankruptPlayers) : bankruptPlayers[k] # i }
    IN  /\ Cardinality(alive) = 1 => winner \in alive
        /\ Cardinality(alive) # 1 => winner = None

(* two of the three players are bankrupt and the third is the winner *)
C10_Witness ==
    /\ Len(bankruptPlayers) = NumPlayers - 1
    /\ winner # None
    /\ ~IsBankrupt(winner)

(***************************************************************************)
(* C11.  skipProperty called while no buy decision is pending changes      *)
(* nothing: players, ownership, mortgages, houses, active player, rolled   *)
(* flag, pending trade and chance state are all unchanged.                 *)
(***************************************************************************)
C11_IdleSkipChangesNothing ==
    [][(skipProperty /\ ~PropertyModalShown) =>
        UNCHANGED << players, ownership, mortgaged, houses, currentPlayer,
                     hasRolled, pendingTrade, chanceIndex, chanceCard >>
    ]_vars

(* skipProperty was the first command of player 0, called with no decision *)
(* open while the offer to player 2 waited for its review: the state is    *)
(* the initial one, one command later                                      *)
C11_Witness ==
    /\ steps = 1
    /\ gameLog = <<>>
    /\ activeCell = None
    /\ currentPlayer = 0 /\ ~hasRolled /\ ~rolling /\ ~showTrade
    /\ pendingTrade = InitPending
    /\ ownership = InitOwnership
    /\ mortgaged = InitMortgaged
    /\ houses = InitHouses
    /\ bankruptPlayers = <<>>
    /\ chanceIndex = 0 /\ chanceCard = NoCard
    /\ \A i \in Players : players[i] = NewPlayer(i, 1500, 35)

(***************************************************************************)
(* C12.  A buy, by buyProperty or by the automated 'buy' action, transfers *)
(* the cell and debits its price only if the buyer's cash is greater than  *)
(* the price; otherwise ownership and cash are unchanged.                  *)
(***************************************************************************)
BuyStep == gameLog' # <<>> /\ gameLog'[1].kind = "bought"

C12_BuyNeedsCash ==
    [][BuyStep =>
        LET b == gameLog'[1].player
            c == gameLog'[1].a
        IN  IF players[b].money > Price(c)
            THEN /\ ownership'[c] = b
                 /\ players'[b].money = players[b].money - Price(c)
            ELSE /\ ownership' = ownership
                 /\ players'[b].money = players[b].money
    ]_vars

(***************************************************************************)
(* C13.  A roll moves the active player only when that player has not yet  *)
(* rolled this turn and is not in jail: at the step that completes a roll  *)
(* the mover is the active player, the rolled flag is still unset and is   *)
(* set by the step, and the mover is not in jail; the rolled flag is reset *)
(* only when the active player changes.  Hence the dice move the active    *)
(* player at most once in a turn and never move a jailed player.           *)
(***************************************************************************)
C13_RollOncePerTurnNotJailed ==
    [][/\ LandingStep =>
            LET m == gameLog'[1].player
            IN  /\ m = currentPlayer
                /\ ~hasRolled /\ hasRolled'
                /\ ~players[m].inJail
       /\ (hasRolled /\ ~hasRolled') => currentPlayer' # currentPlayer
    ]_vars

(***************************************************************************)
(* C14.  endTurn changes the active player only if a roll has occurred     *)
(* this turn (or the player was made to stay in jail) and no landing       *)
(* decision is pending: while a buy/skip decision or an unacknowledged     *)
(* chance card is pending, endTurn leaves the active player unchanged.     *)
(***************************************************************************)
EndTurnStep == gameLog' # <<>> /\ gameLog'[1].kind = "endturn"

C14_EndTurnNeedsSettledRoll ==
    [][(EndTurnStep /\ currentPlayer' # currentPlayer) =>
        /\ hasRolled
        /\ ~PropertyModalShown
        /\ chanceCard = NoCard
    ]_vars

(***************************************************************************)
(* C15.  Whenever the turn passes, by endTurn or by the bankruptcy of the  *)
(* active player, the new active player is the first non-bankrupt player   *)
(* after the old one in roster order, wrapping around; the player who has  *)
(* just gone bankrupt is never selected; the rolled flag is false at the   *)
(* start of the new turn.                                                  *)
(***************************************************************************)
C15_TurnPassesToNextSolvent ==
    [][currentPlayer' # currentPlayer =>
        LET solvent(q) == \A k \in 1 .. Len(bankruptPlayers') :
                             bankruptPlayers'[k] # q
            after(k) == (currentPlayer + k) % NumPlayers
        IN  /\ solvent(currentPlayer')
            /\ \E k \in 1 .. NumPlayers :
                  /\ currentPlayer' = after(k)
                  /\ \A j \in 1 .. (k - 1) : ~solvent(after(j))
            /\ ~hasRolled'
    ]_vars

(* player 2 has ended a turn and the turn has passed over the bankrupt     *)
(* player 0 to player 1                                                    *)
C15_Witness ==
    /\ bankruptPlayers = << 0 >>
    /\ gameLog = << Log("endturn", 2, 1, 0) >>
    /\ currentPlayer = 1
    /\ ~hasRolled

(***************************************************************************)
(* C16.  After a successful endTurn no trade offer is pending: an offer    *)
(* proposed during the turn and neither accepted nor rejected is cleared   *)
(* when the turn ends.                                                     *)
(***************************************************************************)
C16_EndTurnClearsTrade ==
    [][(EndTurnStep /\ currentPlayer' # currentPlayer) =>
        pendingTrade' = NoTrade
    ]_vars

(***************************************************************************)
(* C17.  In every reachable state a cell has a house count greater than 0  *)
(* only if it is a street whose owner holds every cell of its color group. *)
(***************************************************************************)
C17_HousesOnlyOnFullGroups ==
    \A c \in Ownable :
        houses[c] > 0 =>
            /\ c \in Streets
            /\ ownership[c] # None
            /\ \A d \in SameColorCells(c) : ownership[d] = ownership[c]

(***************************************************************************)
(* C18.  In every reachable state a mortgaged cell has house count 0.      *)
(***************************************************************************)
C18_NoHouseOnMortgagedCell ==
    \A c \in Ownable : mortgaged[c] => houses[c] = 0

(***************************************************************************)
(* C19.  unmortgage(cell) clears the mortgaged flag only if the player's   *)
(* cash is at least floor(mortgageValue * 1.1) and then debits exactly     *)
(* that amount; with less cash the cell stays mortgaged and the cash is    *)
(* unchanged.                                                              *)
(***************************************************************************)
UnmortgageStep(c) == mortgaged[c] /\ ~mortgaged'[c] /\ ~BankruptcyStep

C19_UnmortgageNeedsCash ==
    [][\A c \in Ownable :
        /\ UnmortgageStep(c) =>
              LET cost == (MortgageValue(c) * 11) \div 10
                  p == currentPlayer
              IN  /\ players[p].money >= cost
                  /\ players'[p].money = players[p].money - cost
        /\ (c \in UnmortgageCells /\ unmortgagePropertyOf(c)
               /\ players[currentPlayer].money < (MortgageValue(c) * 11) \div 10) =>
              /\ mortgaged'[c]
              /\ players'[currentPlayer].money = players[currentPlayer].money
    ]_vars

(***************************************************************************)
(* C20.  sellHouse(cell) credits floor(houseCost / 2) and decrements the   *)
(* house count by 1 only when the count is greater than 0; on a cell with  *)
(* 0 houses, or a cell the acting player does not own, it credits nothing  *)
(* and changes no house count.                                             *)
(***************************************************************************)
C20_SellHouseNeedsHouse ==
    [][/\ \A c \in SellCells :
            sellHouseOf(c) =>
                IF ownership[c] = currentPlayer /\ houses[c] > 0
                THEN /\ houses' = [houses EXCEPT ![c] = @ - 1]
                     /\ players'[currentPlayer].money =
                            players[currentPlayer].money + HouseCost(c) \div 2
                ELSE /\ houses' = houses
                     /\ \A i \in Players : players'[i].money = players[i].money
       /\ \A c \in Streets :
            (houses'[c] = houses[c] - 1 /\ ~BankruptcyStep) =>
                players'[currentPlayer].money =
                    players[currentPlayer].money + HouseCost(c) \div 2
    ]_vars

(***************************************************************************)
(* C21.  A build adds a house and debits houseCost only if the builder's   *)
(* cash at the time of the build is at least houseCost, so no build of a   *)
(* turn, the automated builds of one pre-roll list included, leaves the    *)
(* builder with negative cash; a rejected build changes neither cash nor   *)
(* house count.                                                            *)
(***************************************************************************)
BuiltLogged == gameLog' # <<>> /\ gameLog'[1].kind = "built"

C21_BuildNeedsCash ==
    [][/\ \A c \in Streets :
            houses'[c] = houses[c] + 1 =>
                LET b == IF BuiltLogged THEN gameLog'[1].player ELSE currentPlayer
                IN  /\ players[b].money >= HouseCost(c)
                    /\ players'[b].money = players[b].money - HouseCost(c)
                    /\ players'[b].money >= 0
       /\ (BuiltLogged /\ houses' = houses) => players' = players
    ]_vars

(***************************************************************************)
(* C22.  A player leaves jail on a jail-free card, by the human button or  *)
(* by the automated 'jailUseCard' action, only while holding one; the step *)
(* consumes the card, releases the player at once and changes no cash.     *)
(***************************************************************************)
UseCardStep == gameLog' # <<>> /\ gameLog'[1].kind = "jailUseCard"

C22_JailCardConsumed ==
    [][UseCardStep =>
        LET p == gameLog'[1].player
        IN  /\ players[p].jailFreeCard
            /\ ~players'[p].jailFreeCard
            /\ ~players'[p].inJail
            /\ \A i \in Players : players'[i].money = players[i].money
    ]_vars

(***************************************************************************)
(* C23.  A trade offer becomes pending only if its recipient is a          *)
(* non-bankrupt player other than the proposer, every property it gives is *)
(* owned by the proposer and every property it takes by the recipient at   *)
(* that moment, and every listed property is unmortgaged and carries no    *)
(* house; also when the recipient was changed after properties had been    *)
(* selected.                                                               *)
(***************************************************************************)
ProposalStep == pendingTrade' # NoTrade /\ pendingTrade' # pendingTrade

C23_ProposalIsLegal ==
    [][ProposalStep =>
        LET t == pendingTrade'
            clean(c) == ~mortgaged[c] /\ houses[c] = 0
        IN  /\ t.to \in Players \ {t.from}
            /\ ~IsBankrupt(t.to)
            /\ \A c \in t.giveProperties : ownership[c] = t.from /\ clean(c)
            /\ \A c \in t.takeProperties : ownership[c] = t.to /\ clean(c)
    ]_vars

(***************************************************************************)
(* C24.  At most one trade offer is pending at any time, and a pending     *)
(* offer is never replaced by a later proposal: while an offer is pending  *)
(* a step either leaves it as it is or removes it (the recipient's accept  *)
(* or reject).                                                             *)
(***************************************************************************)
C24_PendingNotReplaced ==
    [][pendingTrade # NoTrade => pendingTrade' \in {pendingTrade, NoTrade}]_vars

(***************************************************************************)
(* C25.  An automated player cannot stall the game: once the turn of an    *)
(* automated player has started, its sequence of pre-roll actions, roll    *)
(* and post-roll actions eventually leaves another player active, for      *)
(* every decision payload.                                                 *)
(***************************************************************************)
C25_AITurnPasses ==
    \A p \in Players :
        (isAITurn /\ currentPlayer = p) ~> (currentPlayer # p)

(***************************************************************************)
(* C26.  A roll supplied by the collaborator goes through the same         *)
(* movement and landing pipeline as a human roll: from the same state and  *)
(* the same dice the automated roll leaves the roster (positions, cash     *)
(* with its pass-start credit, rent, tax and card transfers, jail entry,   *)
(* jail-free card) that the roll of a human player in that seat leaves     *)
(* once the drawn card, if any, is acknowledged.                           *)
(***************************************************************************)
(* the roll of total s of a human player in seat m from the current state, *)
(* old being the dice shown before the roll, and the acknowledgement of    *)
(* the card it draws                                                       *)
HumanRollOutcome(m, s, old) ==
    LET seat == [players EXCEPT ![m].type = "human"]
        click == [Closure EXCEPT !.currentPlayer = m, !.players = seat,
                                 !.dice = old]
        w == Walk(players[m].position, FALSE, s)
        bonus == IF w.passedStart THEN StartBonus ELSE 0
        st0 == [Landing EXCEPT !.players = [seat EXCEPT ![m].position = w.pos,
                                                        ![m].money = @ + bonus]]
        st1 == handleCellAction(st0, click, w.pos, FALSE, None, 0)
        shown == [click EXCEPT !.players = st1.players,
                               !.chanceIndex = st1.chanceIndex]
    IN  IF st1.chanceCard = NoCard THEN st1
        ELSE applyChance(st1, shown, st1.chanceCard, None, 0)

AILandingStep ==
    /\ LandingStep
    /\ players[gameLog'[1].player].type = "ai"
    /\ aiCtx.active /\ aiCtx.stage = "rolling"

C26_AIRollAsHumanRoll ==
    [][AILandingStep =>
        LET m == gameLog'[1].player
            human == HumanRollOutcome(m, RollTotal(m), aiCtx.clo.dice)
        IN  (/\ aiCtx.clo.ownership = ownership
             /\ aiCtx.clo.bankruptPlayers = bankruptPlayers
             /\ human.chanceCard = NoCard) =>
                \A i \in Players :
                    /\ players'[i].position = human.players[i].position
                    /\ players'[i].money = human.players[i].money
                    /\ players'[i].inJail = human.players[i].inJail
                    /\ players'[i].jailTurnsLeft = human.players[i].jailTurnsLeft
                    /\ players'[i].jailFreeCard = human.players[i].jailFreeCard
    ]_vars

(***************************************************************************)
(* C27.  The chance deck is a fixed cycle: the k-th card drawn in a game   *)
(* is cards[k mod length], a draw caused by a card that moved the player   *)
(* onto another chance cell included.  Hence the card a landing puts on    *)
(* show is the card under the cursor and moves the cursor by one, and the  *)
(* cards drawn by an automated landing are the consecutive cards from the  *)
(* cursor on, the cursor moving by their number: no card is skipped or     *)
(* drawn twice in a row.                                                   *)
(***************************************************************************)
IsDraw(e) == e.kind = "drew"

CardAfter(k) == chanceCards[((chanceIndex + k) % Len(chanceCards)) + 1]

C27_DeckIsFixedCycle ==
    [][/\ (chanceCard' # chanceCard /\ chanceCard' # NoCard) =>
            /\ chanceCard' = CardAfter(0)
            /\ chanceIndex' = (chanceIndex + 1) % Len(chanceCards)
       /\ AILandingStep =>
            LET drawn == SelectSeq(gameLog', IsDraw)
            IN  /\ chanceIndex' = (chanceIndex + Len(drawn)) % Len(chanceCards)
                /\ \A j \in 1 .. Len(drawn) :
                      /\ drawn[j].a = CardAfter(j - 1).type
                      /\ drawn[j].b = CardAfter(j - 1).n
    ]_vars

(***************************************************************************)
(* C28.  When an automated player lands on a chance cell the card is       *)
(* applied inside the landing and none is left on show.  When a human      *)
(* player lands on one, the landing changes nothing but the mover's        *)
(* position and pass-start credit and puts the card on show; a card on     *)
(* show goes away only by the step that applies it, and it is then gone;   *)
(* and every card a human player draws is put on show, so that each card   *)
(* drawn is applied exactly once.                                          *)
(***************************************************************************)
HumanLandingStep ==
    /\ LandingStep
    /\ players[gameLog'[1].player].type = "human"

C28_ChanceAppliedOnce ==
    [][/\ (AILandingStep /\ gameLog'[1].a \in ChanceCells) =>
            /\ chanceCard' = chanceCard
            /\ Len(gameLog') >= 2 /\ gameLog'[2].kind = "drew"
       /\ (HumanLandingStep /\ gameLog'[1].a \in ChanceCells) =>
            LET m == gameLog'[1].player
            IN  /\ chanceCard' # NoCard
                /\ players' = [players EXCEPT
                                  ![m].position = gameLog'[1].a,
                                  ![m].money = @ + gameLog'[1].b]
       /\ (chanceCard # NoCard /\ chanceCard' # chanceCard) =>
            /\ chanceCard' = NoCard
            /\ gameLog' # <<>>
            /\ gameLog'[1].kind = "drew"
            /\ gameLog'[1].a = chanceCard.type /\ gameLog'[1].b = chanceCard.n
       /\ (chanceIndex' # chanceIndex /\ ~AILandingStep) =>
            chanceCard' = CardAfter(0)
    ]_vars

(***************************************************************************)
(* C29.  A roll, human or automated, that lands on the GoToJail cell       *)
(* leaves the mover with inJail = true, jailTurnsLeft = 3 and position 10  *)
(* (the jail cell) and opens no buy or chance decision; and no step leaves *)
(* a jailed player on the GoToJail cell.                                   *)
(***************************************************************************)
C29_GoToJailLanding ==
    [][/\ (LandingStep /\ gameLog'[1].a = GoToJailCell) =>
            LET m == gameLog'[1].player
            IN  /\ players'[m].inJail
                /\ players'[m].jailTurnsLeft = 3
                /\ players'[m].position = 10
                /\ activeCell' = activeCell
                /\ chanceCard' = chanceCard
       /\ \A i \in Players :
            players'[i].inJail => players'[i].position # GoToJailCell
    ]_vars

(* the human player 0 has rolled 5 + 5 from cell 20 onto the GoToJail cell *)
(* and sits in jail with no decision open                                  *)
C29_Witness ==
    /\ Len(gameLog) = 2
    /\ gameLog[1].kind = "landed" /\ gameLog[1].player = 0
    /\ gameLog[1].a = GoToJailCell
    /\ gameLog[2].kind = "jail"
    /\ dice = << 5, 5 >>
    /\ players[0].inJail /\ players[0].jailTurnsLeft = JailTurns
    /\ players[0].position = JailPosition
    /\ activeCell = None /\ chanceCard = NoCard

(***************************************************************************)
(* C30.  Paying rent is a pure transfer and never an elimination: when a   *)
(* roll lands the active player on an unmortgaged cell owned by another    *)
(* player, the payer's cash, pass-start credit apart, decreases by the     *)
(* rent, the owner's cash increases by the same amount, the cash of every  *)
(* other player is unchanged, and nobody is marked bankrupt, even if the   *)
(* payer's cash becomes negative.                                          *)
(***************************************************************************)
C30_RentIsPureTransfer ==
    [][\A m \in Players :
        (LandsOnForeign(Ownable) /\ gameLog'[1].player = m) =>
            LET owner == ownership[gameLog'[1].a]
                rent == RentCharged'
                credit == gameLog'[1].b
            IN  /\ players'[m].money = players[m].money + credit - rent
                /\ players'[owner].money = players[owner].money + rent
                /\ \A i \in Players \ {m, owner} :
                      players'[i].money = players[i].money
                /\ bankruptPlayers' = bankruptPlayers
    ]_vars

(***************************************************************************)
(* C31.  A roll that lands the mover on a mortgaged cell owned by another  *)
(* player, or on a cell the mover owns, changes no player's cash (the      *)
(* mover's pass-start credit apart) and opens no decision.                 *)
(***************************************************************************)
LandsRentFree ==
    /\ LandingStep
    /\ gameLog'[1].a \in Ownable
    /\ \/ ownership[gameLog'[1].a] = gameLog'[1].player
       \/ /\ ownership[gameLog'[1].a] # None
          /\ mortgaged[gameLog'[1].a]

C31_NoRentOnMortgagedOrOwn ==
    [][LandsRentFree =>
        LET m == gameLog'[1].player
        IN  /\ players'[m].money = players[m].money + gameLog'[1].b
            /\ \A i \in Players \ {m} : players'[i].money = players[i].money
            /\ activeCell' = activeCell
            /\ chanceCard' = chanceCard
    ]_vars

(***************************************************************************)
(* C32.  The collectFromAll and payAll cards transfer the fixed amount     *)
(* between the drawer and each other non-bankrupt player: with m such      *)
(* players the drawer's cash changes by +m x amount (collect) or           *)
(* -m x amount (pay), the cash of each of them by the opposite single      *)
(* amount, the cash of a bankrupt player not at all, and the sum of all    *)
(* cash is unchanged (the pass-start credit of the landing apart).         *)
(***************************************************************************)
IsTransferCard(e) ==
    e.kind = "drew" /\ e.a \in {"collectFromAll", "payAll"}

RECURSIVE SumCash(_, _)
SumCash(ps, S) ==
    IF S = {} THEN 0
    ELSE LET i == CHOOSE x \in S : TRUE
         IN  ps[i].money + SumCash(ps, S \ {i})

TransferCardEffect(e, credit) ==
    LET d == e.player
        gain == IF e.a = "collectFromAll" THEN e.b ELSE -e.b
        payers == { i \in Players \ {d} : ~IsBankrupt(i) }
    IN  /\ players'[d].money =
              players[d].money + credit + Cardinality(payers) * gain
        /\ \A i \in payers : players'[i].money = players[i].money - gain
        /\ \A i \in Players \ {d} :
              IsBankrupt(i) => players'[i].money = players[i].money
        /\ SumCash(players', Players) = SumCash(players, Players) + credit

C32_TransferCardsConserveCash ==
    [][/\ (~LandingStep /\ gameLog' # <<>> /\ IsTransferCard(gameLog'[1])) =>
            TransferCardEffect(gameLog'[1], 0)
       /\ (LandingStep /\ Len(gameLog') >= 2 /\ IsTransferCard(gameLog'[2])) =>
            TransferCardEffect(gameLog'[2], gameLog'[1].b)
    ]_vars

(* with player 0 bankrupt, the automated player 1 has rolled 3 + 4 from    *)
(* cell 35 onto the chance cell 2 and collected 20 from player 2 alone     *)
C32_Witness ==
    /\ bankruptPlayers = << 0 >>
    /\ gameLog = << Log("landed", 1, 2, StartBonus),
                    Log("drew", 1, "collectFromAll", 20) >>
    /\ players[1].money = 20 + MortgageValue(9) + StartBonus + 20
    /\ players[2].money = 20 - 20
    /\ players[0].money = 20 - TaxAmount(38)

(***************************************************************************)
(* C33.  In every reachable state the jailTurnsLeft of each player is      *)
(* between 0 and 3, and a player is in jail exactly when its jailTurnsLeft *)
(* is greater than 0.                                                      *)
(***************************************************************************)
C33_JailCountdownConsistent ==
    \A i \in Players :
        /\ players[i].jailTurnsLeft \in 0 .. 3
        /\ players[i].inJail <=> players[i].jailTurnsLeft > 0

(***************************************************************************)
(* C34.  While at least one player is not bankrupt, the active-player      *)
(* index designates a player who is not bankrupt.                          *)
(***************************************************************************)
C34_ActivePlayerNotBankrupt ==
    (\E p \in Players : ~IsBankrupt(p)) => ~IsBankrupt(currentPlayer)

(* players 0 and 2 have been declared bankrupt in turn, and the walk of    *)
(* the second declaration went over player 0 to player 1                   *)
C34_Witness ==
    /\ bankruptPlayers = << 0, 2 >>
    /\ currentPlayer = 1
    /\ ~IsBankrupt(1)

(***************************************************************************)
(* C35.  In every reachable state no cell of the ownership map belongs to  *)
(* a bankrupt player.                                                      *)
(***************************************************************************)
C35_BankruptOwnsNothing ==
    \A c \in Ownable : ownership[c] # None => ~IsBankrupt(ownership[c])

(***************************************************************************)
(* C36.  Commands are serialized with respect to a human roll: when the    *)
(* movement of a roll completes, the roster is the one the landing gives   *)
(* from the roster of that moment, so that every change of cash, jail      *)
(* state or position made by a command that ran while the token was moving *)
(* is still present; the completion never writes back the values held when *)
(* the roll started.                                                       *)
(***************************************************************************)
LandingOnCurrentRoster ==
    LET clo == [rollCtx.clo EXCEPT !.players = players]
        cp == clo.currentPlayer
        w == Walk(rollCtx.startPos, FALSE, rollCtx.steps)
        bonus == IF w.passedStart THEN StartBonus ELSE 0
        st0 == [Landing EXCEPT
                  !.players = [players EXCEPT ![cp].position = w.pos,
                                              ![cp].money = @ + bonus]]
    IN  handleCellAction(st0, clo, w.pos, FALSE, None, 0).players

C36_RollKeepsConcurrentChanges ==
    [][(HumanLandingStep /\ rollCtx.active) =>
          players' = LandingOnCurrentRoster]_vars

(***************************************************************************)
(* C37.  A pending landing decision never carries over to another player:  *)
(* a buy assigns the cell to a player who has rolled in the current turn   *)
(* and stands on that cell, and an acknowledged chance card is applied to  *)
(* a player who has rolled in the current turn and stands on a chance      *)
(* cell; a decision opened by the landing of a previous player is neither  *)
(* bought nor applied.                                                     *)
(***************************************************************************)
C37_DecisionStaysWithLander ==
    [][/\ BuyStep =>
            /\ hasRolled
            /\ players[gameLog'[1].player].position = gameLog'[1].a
       /\ acknowledgeChanceCard =>
            /\ hasRolled
            /\ players[currentPlayer].position \in ChanceCells
    ]_vars

(***************************************************************************)
(* C38.  The jailTurnsLeft of a jailed player decreases by at most 1 per   *)
(* turn: once the Stay in Jail button has taken effect, either the turn    *)
(* has been passed on (the rolled flag is false again) or the button is no *)
(* longer offered, so that the stay cannot take effect a second time in    *)
(* the same turn.                                                          *)
(***************************************************************************)
C38_OneStayPerTurn ==
    [][stayInJail => (~hasRolled' \/ ~JailPanel')]_vars

(***************************************************************************)
(* C39.  A relocation by a chance card credits the 200 of the start cell   *)
(* exactly when the movement wraps forward past cell 0: a 'move' card with *)
(* negative steps that stays above cell 0 credits nothing, a 'goto' card   *)
(* credits nothing, and the credit is the same whether the card is applied *)
(* at the acknowledgement of a human player or during the landing of an    *)
(* automated player.  Stated where the cell of arrival has no cash effect  *)
(* of its own.                                                             *)
(***************************************************************************)
IsRelocation(type) == type \in {"move", "goto"}

CardTarget(type, n, from) ==
    IF type = "move" THEN (from + n + BoardSize) % BoardSize ELSE n

WrapsForward(type, n, from) ==
    type = "move" /\ n > 0 /\ CardTarget(type, n, from) < from

CashNeutral(cell, m) ==
    /\ cell \notin ChanceCells
    /\ CellType(cell) \notin {"tax", "goto_jail"}
    /\ cell \in Ownable =>
          (ownership[cell] \in {None, m} \/ mortgaged[cell])

RelocationCredit(m, type, n, from, before) ==
    CashNeutral(CardTarget(type, n, from), m) =>
        /\ players'[m].position = CardTarget(type, n, from)
        /\ players'[m].money =
              before + (IF WrapsForward(type, n, from) THEN StartBonus ELSE 0)

C39_StartBonusOnlyOnForwardWrap ==
    [][/\ (acknowledgeChanceCard /\ IsRelocation(chanceCard.type)) =>
            RelocationCredit(currentPlayer, chanceCard.type, chanceCard.n,
                             players[currentPlayer].position,
                             players[currentPlayer].money)
       /\ (/\ AILandingStep
           /\ Len(gameLog') >= 2
           /\ gameLog'[2].kind = "drew"
           /\ IsRelocation(gameLog'[2].a)) =>
            LET m == gameLog'[1].player
            IN  RelocationCredit(m, gameLog'[2].a, gameLog'[2].b,
                                 gameLog'[1].a,
                                 players[m].money + gameLog'[1].b)
    ]_vars

(***************************************************************************)
(* C40.  The game ends by elimination and stays ended: from a state in     *)
(* which exactly one player is not bankrupt, no step changes the set of    *)
(* bankrupt players, the active player or the ownership map, so that the   *)
(* winner stays defined and the same.                                      *)
(***************************************************************************)
C40_EndedGameIsFrozen ==
    [][winner # None =>
          /\ bankruptPlayers' = bankruptPlayers
          /\ currentPlayer' = currentPlayer
          /\ ownership' = ownership
          /\ winner' = winner
    ]_vars

=============================================================================
